---- MODULE Spec2Model ----
(***************************************************************************)
(* kaipy: the distributed reader (kaipy/gamera/gampp.py, GameraPipe) and   *)
(* the restart rescaling engine (kaipy/gamera/magsphereRescale.py).        *)
(*                                                                         *)
(* Arrays are records [shape, data]: shape is the numpy shape (a tuple)    *)
(* and data maps every 0-based index tuple of that shape to its value.     *)
(* Python's None is the empty tuple <<>>, a present value v is <<v>>.      *)
(***************************************************************************)
EXTENDS Integers, Sequences, FiniteSets, TLC

VARIABLES
    disk,       \* the files of the run directory: [isMPI, is2D, R, dN]
    req,        \* the arguments of the last GetVar call: [vID, sID, vScl]
    pipe,       \* the GameraPipe object's fields
    pc,         \* where the call in flight is ("idle": no call in flight)
    V,          \* GetVar's local destination array
    tile,       \* sequential loops: position in the rank list (1-based)
    coord,      \* GetGridParallel: position in coords (1-based)
    datasets,   \* concurrent reads: the results gathered so far, in completion order
    bar,        \* the progress bar's counter of the call in flight
    reads,      \* file reads made by the call in flight
    ioError,    \* whether a file read of the call in flight failed
    barError,   \* whether a progress update of the call in flight raised
    ret,        \* what the last GetVar call gave its caller
    rsIn,       \* restart image handed to PushRestartMPI: [R, G, M, oG, oM, G0]
    rsFiles,    \* the restart files written so far, in the order written
    rsOut,      \* PullRestartMPI's locals: [dims, doGas0, G, M, G0, oG, oM]
    rsPc,       \* "push", "pull", "done" or "raised"
    rsTile,     \* position of the loops over ranks (1-based)
    gasIn,      \* a gas field with its grid, the halved and the doubled grid
    gasUp,      \* what upGas returned
    gasDown,    \* what downGas returned
    gasPc,      \* "start", "down", "up" or "updown"
    fluxIn,     \* a face flux array M of shape (3, Nk+1, Nj+1, Ni+1)
    fluxOut,    \* what downFlux returned
    fluxDiv,    \* the arrays MaxDiv returned, in call order
    fluxPc,     \* "start", "checked", "down", "done" or "raised"
    fnArg,      \* the argument of a call of downVolt, upVolt, upRCMCpl or upRCM
    fnRes,      \* what the call gave: [ok, arr], ok FALSE when it raised
    fnPc        \* "start", or the name of the function that was called

pipeVars ==
    <<disk, req, pipe, pc, V, tile, coord, datasets, bar, reads, ioError, barError, ret>>

restartVars == <<rsIn, rsFiles, rsOut, rsPc, rsTile>>

gasVars == <<gasIn, gasUp, gasDown, gasPc>>

fluxVars == <<fluxIn, fluxOut, fluxDiv, fluxPc>>

fnVars == <<fnArg, fnRes, fnPc>>

vars == <<pipeVars, restartVars, gasVars, fluxVars, fnVars>>

(***************************************************************************)
(* Bounds of the model.                                                    *)
(***************************************************************************)
MaxR == 2        \* ranks per axis
MaxRanks == 4    \* ranks in all
MaxdN == 2       \* cells per rank and axis
MaxGasN == 3     \* cells per axis of a gas field
MaxFluxN == 4    \* cells per axis of a flux field
MaxVoltN == 3    \* cells along k and j of a volt field
MaxRcmN == 4     \* rows of an array handed to upRCMCpl or upRCM
MaxUpN == 2      \* cells per axis of a flux field handed to upFlux
MaxUpCells == 8  \* cells in all of a flux field handed to upFlux
MaxGridN == 2    \* cells along i and j of the grid handed to upGrid

(***************************************************************************)
(* numpy arrays.                                                           *)
(***************************************************************************)
NoValue == <<>>

Max2(a, b) == IF a >= b THEN a ELSE b

Min2(a, b) == IF a <= b THEN a ELSE b

Box(sh) ==
    CASE Len(sh) = 0 -> {<<>>}
      [] Len(sh) = 1 -> {<<a>> : a \in 0..(sh[1]-1)}
      [] Len(sh) = 2 -> {<<a, b>> : a \in 0..(sh[1]-1), b \in 0..(sh[2]-1)}
      [] Len(sh) = 3 -> {<<a, b, c>> : a \in 0..(sh[1]-1), b \in 0..(sh[2]-1),
                                       c \in 0..(sh[3]-1)}
      [] Len(sh) = 4 -> {<<a, b, c, d>> : a \in 0..(sh[1]-1), b \in 0..(sh[2]-1),
                                          c \in 0..(sh[3]-1), d \in 0..(sh[4]-1)}
      [] Len(sh) = 5 -> {<<a, b, c, d, e>> : a \in 0..(sh[1]-1), b \in 0..(sh[2]-1),
                                             c \in 0..(sh[3]-1), d \in 0..(sh[4]-1),
                                             e \in 0..(sh[5]-1)}

\* np.zeros(shape)
Zeros(sh) == [shape |-> sh, data |-> [x \in Box(sh) |-> 0]]

\* the empty list [] a field holds before it is assigned
EmptyArr == Zeros(<<0>>)

\* the length of a[lo:hi] on an axis of length n (0 <= lo <= hi)
SliceLen(n, lo, hi) == Max2(0, Min2(hi, n) - Min2(lo, n))

\* the shape of A[lo1:hi1, lo2:hi2, ...]
BlockShape(A, lo, hi) ==
    [d \in 1..Len(A.shape) |-> SliceLen(A.shape[d], lo[d], hi[d])]

\* numpy's broadcasting rule for an assignment of a value of shape ds to a block
\* of shape bs: trailing axes are aligned, a value axis is the block's or is 1,
\* extra leading value axes are 1
Broadcastable(ds, bs) ==
    LET m == Len(ds)
        n == Len(bs)
    IN  \A i \in 1..m :
            IF i + n - m >= 1 THEN ds[i] = bs[i + n - m] \/ ds[i] = 1
                              ELSE ds[i] = 1

\* the index of the value that lands on index y of the block
BroadcastIndex(ds, bs, y) ==
    LET m == Len(ds)
        n == Len(bs)
    IN  [i \in 1..m |-> IF i + n - m >= 1 /\ ds[i] # 1 THEN y[i + n - m] ELSE 0]

\* A[lo1:hi1, lo2:hi2, ...] = D ; ok is FALSE when numpy raises ValueError
AssignSlice(A, lo, hi, D) ==
    LET bs == BlockShape(A, lo, hi)
        inBlock(x) == \A d \in 1..Len(A.shape) : lo[d] <= x[d] /\ x[d] < hi[d]
        rel(x) == [d \in 1..Len(A.shape) |-> x[d] - lo[d]]
    IN  IF Broadcastable(D.shape, bs)
        THEN [ok |-> TRUE,
              arr |-> [shape |-> A.shape,
                       data |-> [x \in Box(A.shape) |->
                                   IF inBlock(x)
                                   THEN D.data[BroadcastIndex(D.shape, bs, rel(x))]
                                   ELSE A.data[x]]]]
        ELSE [ok |-> FALSE, arr |-> A]

\* A[lo1:hi1, lo2:hi2, ...]
SubBlock(A, lo, hi) ==
    [shape |-> BlockShape(A, lo, hi),
     data |-> [y \in Box(BlockShape(A, lo, hi)) |->
                 A.data[[a \in 1..Len(y) |-> lo[a] + y[a]]]]]

\* s*A
Scale(s, A) == [shape |-> A.shape, data |-> [x \in Box(A.shape) |-> s * A.data[x]]]

(***************************************************************************)
(* Real numbers.  The gas routines divide; their arithmetic is modelled on *)
(* exact fractions <<numerator, denominator>> in lowest terms with a       *)
(* positive denominator.                                                   *)
(***************************************************************************)
Abs(a) == IF a < 0 THEN -a ELSE a

RECURSIVE GCD(_, _)
GCD(a, b) == IF b = 0 THEN a ELSE GCD(b, a % b)

Frac(n, d) ==
    LET g == GCD(Abs(n), Abs(d))
        sgn == IF d < 0 THEN -1 ELSE 1
    IN  <<(sgn * n) \div g, (sgn * d) \div g>>

Rat(n) == <<n, 1>>

RAdd(p, q) == Frac(p[1] * q[2] + q[1] * p[2], p[2] * q[2])

RMul(p, q) == Frac(p[1] * q[1], p[2] * q[2])

\* p/q, q not zero
RDiv(p, q) == Frac(p[1] * q[2], p[2] * q[1])

\* f[0] + ... + f[n-1]
RECURSIVE RSum(_, _)
RSum(f, n) == IF n = 0 THEN Rat(0) ELSE RAdd(RSum(f, n - 1), f[n - 1])

\* the sum of f over the block [lo1, hi1) x [lo2, hi2) x [lo3, hi3)
RSum3(f, lo, hi) ==
    RSum([a \in 0..(hi[1] - lo[1] - 1) |->
            RSum([b \in 0..(hi[2] - lo[2] - 1) |->
                    RSum([c \in 0..(hi[3] - lo[3] - 1) |->
                            f[<<lo[1] + a, lo[2] + b, lo[3] + c>>]],
                         hi[3] - lo[3])],
                 hi[2] - lo[2])],
         hi[1] - lo[1])

(***************************************************************************)
(* The run directory.  A rank's file holds, for each variable, the block   *)
(* of the global field that the rank owns.                                 *)
(***************************************************************************)
Decomps ==
    {R \in (1..MaxR) \X (1..MaxR) \X (1..MaxR) : R[1] * R[2] * R[3] <= MaxRanks}

RankShapes ==
    {s \in (1..MaxdN) \X (1..MaxdN) \X (1..MaxdN) : s[1] >= s[2] /\ s[2] >= s[3]}

\* what the globs of OpenPipe find in a directory: whether tag.h5 and
\* tag.gam.h5 exist, and the decompositions of the files that match
\* tag_*_0000_0000_0000.gam.h5, in the order glob lists them
Listing(old, new, mpi) == [old |-> old, new |-> new, mpi |-> mpi]

\* a directory that holds one database and nothing else
OneDatabase(isMPI, R) ==
    IF isMPI THEN Listing(FALSE, FALSE, <<R>>) ELSE Listing(TRUE, FALSE, <<>>)

Disks ==
    {d \in [isMPI : BOOLEAN, is2D : BOOLEAN, R : Decomps, dN : RankShapes, odd : {<<>>},
            ls : {OneDatabase(m, R) : m \in BOOLEAN, R \in Decomps}] :
        /\ (~d.isMPI => d.R = <<1, 1, 1>>)
        /\ (d.is2D => d.R[3] = 1 /\ d.dN[3] = 1)
        /\ d.ls = OneDatabase(d.isMPI, d.R)}

Requests ==
    {[vID |-> "D", sID |-> <<>>, vScl |-> s, slice |-> <<>>] : s \in {<<>>, <<2>>}}
    \cup {[vID |-> "P", sID |-> <<0>>, vScl |-> s, slice |-> <<>>] : s \in {<<>>, <<2>>}}

\* the ijkdir strings handed to GetSlice
SliceDirs == {"idir", "Jdir", "KDIR", "xdir", ""}

\* the n handed to GetSlice
SliceNs == (0 - 1)..(MaxdN + 1)

\* GetSlice(vID, sID, ijkdir, n, vScl): slice holds ijkdir and n
SliceRequests ==
    {[vID |-> "P", sID |-> <<0>>, vScl |-> <<>>, slice |-> <<[ijkdir |-> s, n |-> n]>>] :
        s \in SliceDirs, n \in SliceNs}

\* itertools.product(range(Ri),range(Rj),range(Rk)): k runs fastest
RankSeq(R) ==
    [n \in 1..(R[1] * R[2] * R[3]) |->
        <<(n - 1) \div (R[2] * R[3]), ((n - 1) \div R[3]) % R[2], (n - 1) % R[3]>>]

\* the value the run wrote for a variable at a global cell
CellValue(vID, sID, g) ==
    LET gk == IF Len(g) = 3 THEN g[3] ELSE 0
    IN  IF vID = "D" /\ sID = <<>>
        THEN 1 + g[1] + (MaxR * MaxdN) * (g[2] + (MaxR * MaxdN) * gk)
        ELSE 1 + ((g[1] + 2 * g[2] + 3 * gk) % 5)

\* the shape of a cell-centred dataset of one rank file
FileCellShape(d) == IF d.is2D THEN <<d.dN[1], d.dN[2]>> ELSE d.dN

\* the shape of a node-centred dataset of one rank file
FileNodeShape(d) ==
    IF d.is2D THEN <<d.dN[1] + 1, d.dN[2] + 1>>
              ELSE <<d.dN[1] + 1, d.dN[2] + 1, d.dN[3] + 1>>

\* the global index of local index x of rank loc
GlobalIndex(d, loc, x) == [a \in 1..Len(x) |-> loc[a] * d.dN[a] + x[a]]

\* a dataset whose shape is not the one the other ranks' datasets have
OddVar(sh) == [shape |-> sh, data |-> [x \in Box(sh) |-> 100 + Len(sh)]]

\* the dataset vID (of step sID) in the file of rank loc; d.odd, when not empty,
\* names one rank and the shape its variables have
FileVar(d, loc, vID, sID) ==
    IF d.odd # <<>> /\ d.odd[1].loc = loc
    THEN OddVar(d.odd[1].shape)
    ELSE [shape |-> FileCellShape(d),
          data |-> [x \in Box(FileCellShape(d)) |->
                      CellValue(vID, sID, GlobalIndex(d, loc, x))]]

\* the dataset X, Y or Z (node coordinates) or dV (cell volumes) in the file of rank loc
FileGrid(d, loc, vID) ==
    IF vID = "dV"
    THEN [shape |-> FileCellShape(d), data |-> [x \in Box(FileCellShape(d)) |-> 1]]
    ELSE [shape |-> FileNodeShape(d),
          data |-> [x \in Box(FileNodeShape(d)) |->
                      LET g == GlobalIndex(d, loc, x)
                      IN  CASE vID = "X" -> 1 + g[1]
                            [] vID = "Y" -> 1 + g[2]
                            [] OTHER -> IF Len(g) = 3 THEN 1 + g[3] ELSE 0]]

\* kh5.PullVar(fIn, vID, sID) on a readable file
PullVar(d, loc, vID, sID) ==
    IF vID \in {"X", "Y", "Z", "dV"} THEN FileGrid(d, loc, vID)
                                     ELSE FileVar(d, loc, vID, sID)

\* kh5.PullVarLoc(fIn, vID, sID, loc=loc) on a readable file: (dataset, loc)
PullVarLoc(d, loc, vID, sID) == [dataset |-> PullVar(d, loc, vID, sID), loc |-> loc]

\* kh5.getDims(f0): the node dimensions of the first file
getDims(d) == FileNodeShape(d)

(***************************************************************************)
(* GameraPipe.                                                             *)
(***************************************************************************)
\* GameraPipe.__init__ up to its call of OpenPipe
NewPipe(doParallel, nWorkers) ==
    [life |-> "new", f0 |-> "",
     isMPI |-> FALSE, Nr |-> 0, Ri |-> 1, Rj |-> 1, Rk |-> 1,
     is2D |-> FALSE, Ni |-> 0, Nj |-> 0, Nk |-> 0, dNi |-> 0, dNj |-> 0, dNk |-> 0,
     X |-> EmptyArr, Y |-> EmptyArr, Z |-> EmptyArr, dV |-> EmptyArr,
     gridLoaded |-> FALSE, doParallel |-> doParallel, nWorkers |-> nWorkers]

\* the first lines of OpenPipe: which file f0 is and the decomposition in
\* its name; <<>> when OpenPipe quits
Locate(ls) ==
    IF ls.old THEN <<[f0 |-> "old", isMPI |-> FALSE, R |-> <<1, 1, 1>>]>>
    ELSE IF ls.new THEN <<[f0 |-> "new", isMPI |-> FALSE, R |-> <<1, 1, 1>>]>>
    ELSE IF Len(ls.mpi) = 0 THEN NoValue
    ELSE <<[f0 |-> "mpi", isMPI |-> TRUE, R |-> ls.mpi[1]]>>

\* the fields OpenPipe sets from the directory before it calls GetGrid
Discover(P, d) ==
    LET found == Locate(d.ls)[1]
        Dims == getDims(d)
        Nd == Len(Dims)
        Ri == IF found.isMPI THEN found.R[1] ELSE P.Ri
        Rj == IF found.isMPI THEN found.R[2] ELSE P.Rj
        Rk0 == IF found.isMPI THEN found.R[3] ELSE P.Rk
        Rk == IF Nd > 2 THEN Rk0 ELSE 1
        dNk == IF Nd > 2 THEN Dims[3] - 1 ELSE 0
    IN  [P EXCEPT !.isMPI = found.isMPI, !.f0 = found.f0,
                  !.Ri = Ri, !.Rj = Rj, !.Rk = Rk,
                  !.Nr = IF found.isMPI THEN Ri * Rj * Rk0 ELSE P.Nr,
                  !.dNi = Dims[1] - 1, !.dNj = Dims[2] - 1, !.dNk = dNk,
                  !.Ni = (Dims[1] - 1) * Ri, !.Nj = (Dims[2] - 1) * Rj, !.Nk = dNk * Rk,
                  !.is2D = ~(Nd > 2)]

PipeRanks(P) == RankSeq(<<P.Ri, P.Rj, P.Rk>>)

\* NrX = max(self.Nr,1)
NrX(P) == Max2(P.Nr, 1)

CellShape(P) == IF P.is2D THEN <<P.Ni, P.Nj>> ELSE <<P.Ni, P.Nj, P.Nk>>

NodeShape(P) == IF P.is2D THEN <<P.Ni + 1, P.Nj + 1>> ELSE <<P.Ni + 1, P.Nj + 1, P.Nk + 1>>

\* (iS,jS,kS) of rank loc
TileLoBad(P, loc) ==
    IF P.is2D THEN <<loc[1] * P.dNj, loc[2] * P.dNi>>
              ELSE <<loc[1] * P.dNk, loc[2] * P.dNj, loc[3] * P.dNi>>

TileLo(P, loc) ==
    IF P.is2D THEN <<loc[1] * P.dNi, loc[2] * P.dNj>>
              ELSE <<loc[1] * P.dNi, loc[2] * P.dNj, loc[3] * P.dNk>>

\* (iE,jE,kE) of rank loc
TileHi(P, loc) ==
    IF P.is2D THEN <<TileLo(P, loc)[1] + P.dNi, TileLo(P, loc)[2] + P.dNj>>
              ELSE <<TileLo(P, loc)[1] + P.dNi, TileLo(P, loc)[2] + P.dNj,
                     TileLo(P, loc)[3] + P.dNk>>

\* iE+1, jE+1, kE+1: a rank's node block ends one layer after its cells
PlusOneBad(t) == t

PlusOne(t) == [a \in 1..Len(t) |-> t[a] + 1]

\* the datasets GetGrid reads from one file, in the order it reads them
GridIDs(P) == IF P.is2D THEN <<"X", "Y">> ELSE <<"X", "Y", "Z", "dV">>

\* one assignment of GetGrid's loop body: self.<vID>[...] = kh5.PullVar(fIn,vID)
GridAssign(P, d, loc, vID) ==
    LET D == PullVar(d, loc, vID, NoValue)
    IN  CASE vID = "X" ->
               [P EXCEPT !.X = AssignSlice(P.X, TileLo(P, loc), PlusOne(TileHi(P, loc)), D).arr]
          [] vID = "Y" ->
               [P EXCEPT !.Y = AssignSlice(P.Y, TileLo(P, loc), PlusOne(TileHi(P, loc)), D).arr]
          [] vID = "Z" ->
               [P EXCEPT !.Z = AssignSlice(P.Z, TileLo(P, loc), PlusOne(TileHi(P, loc)), D).arr]
          [] OTHER ->
               [P EXCEPT !.dV = AssignSlice(P.dV, TileLo(P, loc), TileHi(P, loc), D).arr]

\* the first n assignments of GetGrid's loop body for rank loc
RECURSIVE GridTileWrite(_, _, _, _)
GridTileWrite(P, d, loc, n) ==
    IF n = 0 THEN P
    ELSE GridAssign(GridTileWrite(P, d, loc, n - 1), d, loc, GridIDs(P)[n])

\* GetGrid's allocation of the coordinate arrays (sequential branch)
GridAlloc(P) ==
    IF P.is2D
    THEN [P EXCEPT !.X = Zeros(NodeShape(P)), !.Y = Zeros(NodeShape(P))]
    ELSE [P EXCEPT !.X = Zeros(NodeShape(P)), !.Y = Zeros(NodeShape(P)),
                   !.Z = Zeros(NodeShape(P)), !.dV = Zeros(CellShape(P))]

\* GetGridParallel's allocation (3D): X, Y, Z and no dV
GridAllocParallel(P) ==
    [P EXCEPT !.X = Zeros(NodeShape(P)), !.Y = Zeros(NodeShape(P)),
              !.Z = Zeros(NodeShape(P))]

\* coords of GetGridParallel (3D)
ParCoords == <<"X", "Y", "Z">>

\* the ranks whose read has not completed, in submission order
Pending(P, done) ==
    LET locs == {done[n].loc : n \in 1..Len(done)}
    IN  SelectSeq(PipeRanks(P), LAMBDA r : r \notin locs)

\* the reads a pool of nWorkers processes is running: tasks start in submission order
Running(P, done) ==
    LET pend == Pending(P, done)
    IN  {pend[n] : n \in 1..Min2(P.nWorkers, Len(pend))}

\* GetGridParallel's merge loop for one coordinate
RECURSIVE MergeGrid(_, _, _, _)
MergeGrid(P, vID, done, n) ==
    IF n = 0 THEN P
    ELSE LET Q == MergeGrid(P, vID, done, n - 1)
             lo == TileLo(Q, done[n].loc)
             hi == PlusOne(TileHi(Q, done[n].loc))
         IN  CASE vID = "X" -> [Q EXCEPT !.X = AssignSlice(Q.X, lo, hi, done[n].dataset).arr]
               [] vID = "Y" -> [Q EXCEPT !.Y = AssignSlice(Q.Y, lo, hi, done[n].dataset).arr]
               [] OTHER -> [Q EXCEPT !.Z = AssignSlice(Q.Z, lo, hi, done[n].dataset).arr]

\* GetVar's and GetVarParallel's allocation of V
VarAlloc(P) == Zeros(CellShape(P))

\* GetVar's loop body for rank loc: V[iS:iE,jS:jE,kS:kE] = kh5.PullVar(fIn,vID,sID)
VarTileWrite(P, d, A, loc, r) ==
    AssignSlice(A, TileLo(P, loc), TileHi(P, loc), PullVar(d, loc, r.vID, r.sID))

\* GetVarParallel's merge loop over the first n gathered results
RECURSIVE MergeVar(_, _, _, _)
MergeVar(P, A, done, n) ==
    IF n = 0 THEN [ok |-> TRUE, arr |-> A]
    ELSE LET prev == MergeVar(P, A, done, n - 1)
             next == AssignSlice(prev.arr, TileLo(P, done[n].loc), TileHi(P, done[n].loc),
                                 done[n].dataset)
         IN  IF prev.ok THEN next ELSE prev

\* the end of GetVarParallel: if (vScl is not None): V = vScl*V
ParScale(A, vScl) == IF vScl # NoValue THEN Scale(vScl[1], A) ELSE A

\* the end of GetVar's sequential branch: V is returned as assembled
SeqScale(A, vScl) == A

Returned(A) == [kind |-> "array", val |-> A]

Raised == [kind |-> "raised", val |-> EmptyArr]

NoCall == [kind |-> "none", val |-> EmptyArr]

\* str.upper() on the strings of SliceDirs
Upper(str) ==
    CASE str = "idir" -> "IDIR"
      [] str = "Jdir" -> "JDIR"
      [] str = "xdir" -> "XDIR"
      [] OTHER -> str

sDirs == {"IDIR", "JDIR", "KDIR"}

SliceDirBad(ijkdir) == IF Upper(ijkdir) \in sDirs THEN Upper(ijkdir) ELSE "JDIR"

\* ijkdir after GetSlice's first lines: an unknown direction becomes 'IDIR'
SliceDir(ijkdir) == IF Upper(ijkdir) \in sDirs THEN Upper(ijkdir) ELSE "IDIR"

\* an integer index into an axis of length N: negative ones count from the
\* end, <<>> when numpy raises IndexError
PyIndex(np, N) ==
    IF 0 <= np /\ np < N THEN <<np>>
    ELSE IF 0 - N <= np /\ np < 0 THEN <<np + N>>
    ELSE NoValue

\* V[np,:,:], V[:,np,:] or V[:,:,np] with np = n - 1; three indices into a
\* 2D array raise IndexError
Slice(A, dir, n) ==
    LET axis == CASE dir = "IDIR" -> 1 [] dir = "JDIR" -> 2 [] dir = "KDIR" -> 3
    IN  IF Len(A.shape) # 3 THEN Raised
        ELSE LET at == PyIndex(n - 1, A.shape[axis])
                 rest == SelectSeq(<<1, 2, 3>>, LAMBDA a : a # axis)
                 sh == <<A.shape[rest[1]], A.shape[rest[2]]>>
             IN  IF at = NoValue THEN Raised
                 ELSE Returned([shape |-> sh,
                                data |-> [y \in Box(sh) |->
                                    A.data[[a \in 1..3 |->
                                        IF a = axis THEN at[1]
                                        ELSE IF a = rest[1] THEN y[1] ELSE y[2]]]]])

\* what the call that read A gives its caller: GetVar returns V, GetSlice
\* slices it
Finish(A, r) ==
    IF r.slice = NoValue THEN Returned(A)
    ELSE Slice(A, SliceDir(r.slice[1].ijkdir), r.slice[1].n)

(***************************************************************************)
(* The variables of a part of the program that a specification leaves out. *)
(***************************************************************************)
PipeIdle ==
    /\ disk = [isMPI |-> FALSE, is2D |-> FALSE, R |-> <<1, 1, 1>>, dN |-> <<1, 1, 1>>,
               odd |-> <<>>, ls |-> OneDatabase(FALSE, <<1, 1, 1>>)]
    /\ req = [vID |-> "D", sID |-> NoValue, vScl |-> NoValue, slice |-> NoValue]
    /\ pipe = [NewPipe(FALSE, 1) EXCEPT !.life = "none"]
    /\ pc = "idle"
    /\ V = EmptyArr
    /\ tile = 1
    /\ coord = 1
    /\ datasets = <<>>
    /\ bar = 0
    /\ reads = 0
    /\ ioError = FALSE
    /\ barError = FALSE
    /\ ret = NoCall

RestartIdle ==
    /\ rsIn = <<>>
    /\ rsFiles = <<>>
    /\ rsOut = <<>>
    /\ rsPc = "idle"
    /\ rsTile = 1

GasIdle ==
    /\ gasIn = <<>>
    /\ gasUp = <<>>
    /\ gasDown = <<>>
    /\ gasPc = "idle"

FluxIdle ==
    /\ fluxIn = <<>>
    /\ fluxOut = <<>>
    /\ fluxDiv = <<>>
    /\ fluxPc = "idle"

FnIdle ==
    /\ fnArg = <<>>
    /\ fnRes = <<>>
    /\ fnPc = "idle"

(***************************************************************************)
(* The reader's state machine.  The client is one thread: a call runs to   *)
(* its return or its exception before the next call starts.                *)
(***************************************************************************)
WorkerCounts == {1, 2, MaxRanks + 1}

InitPipe ==
    /\ disk \in Disks
    /\ req = [vID |-> "D", sID |-> NoValue, vScl |-> NoValue, slice |-> NoValue]
    /\ pipe \in {NewPipe(par, w) : par \in BOOLEAN, w \in WorkerCounts}
    /\ pc = "idle"
    /\ V = EmptyArr
    /\ tile = 1
    /\ coord = 1
    /\ datasets = <<>>
    /\ bar = 0
    /\ reads = 0
    /\ ioError = FALSE
    /\ barError = FALSE
    /\ ret = NoCall
    /\ RestartIdle
    /\ GasIdle
    /\ FluxIdle
    /\ FnIdle

\* an exception leaves the call in flight
Raise ==
    /\ pc' = "idle"
    /\ V' = EmptyArr
    /\ datasets' = <<>>
    /\ tile' = 1
    /\ coord' = 1

\* GetGrid returns: self.gridLoaded = True (and OpenPipe sets self.f0)
GridLoaded(P) == [P EXCEPT !.gridLoaded = TRUE, !.life = "open"]

GridFailedBad(P) == [P EXCEPT !.gridLoaded = TRUE, !.life = "open"]

\* a raise inside GetGrid: one inside the constructor gives the client no object
GridFailed(P) == [P EXCEPT !.life = IF P.life = "new" THEN "failed" ELSE P.life]

\* if(not self.gridLoaded)
MustLoadAlways(P) == TRUE

MustLoad(P) == ~P.gridLoaded

\* GetGrid's body once the pipe's dimensions are known (P: the pipe's fields)
EnterGetGrid(P) ==
    IF MustLoad(P)
    THEN IF P.isMPI /\ P.doParallel
         THEN IF P.is2D
              THEN \* for data,vID in coords: coords holds bare arrays, the unpacking raises
                   /\ pipe' = GridFailed([P EXCEPT !.X = Zeros(NodeShape(P)),
                                                   !.Y = Zeros(NodeShape(P))])
                   /\ Raise
              ELSE /\ pipe' = GridAllocParallel(P)
                   /\ pc' = "GetGridParallel"
                   /\ coord' = 1
                   /\ datasets' = <<>>
                   /\ UNCHANGED <<V, tile>>
         ELSE /\ pipe' = GridAlloc(P)
              /\ pc' = "GetGrid"
              /\ tile' = 1
              /\ UNCHANGED <<V, coord, datasets>>
    ELSE \* print("Grid Previously Loaded"); self.gridLoaded = True
         /\ pipe' = [P EXCEPT !.gridLoaded = TRUE]
         /\ UNCHANGED <<pc, V, tile, coord, datasets>>

\* GameraPipe(fdir,ftag,...): OpenPipe scrapes the first file, then calls GetGrid
OpenPipe ==
    /\ pc = "idle"
    /\ pipe.life = "new"
    /\ bar' = 0
    /\ barError' = FALSE
    /\ IF Locate(disk.ls) = NoValue
       THEN \* quit(): no file is read
            /\ pipe' = [pipe EXCEPT !.life = "quit"]
            /\ Raise
            /\ reads' = 0
            /\ ioError' = FALSE
       ELSE \E ok \in BOOLEAN :
               /\ ioError' = ~ok
               /\ IF ok
                  THEN /\ EnterGetGrid(Discover(pipe, disk))
                       /\ reads' = 1
                  ELSE /\ pipe' = GridFailed(pipe)
                       /\ Raise
                       /\ reads' = 0
    /\ UNCHANGED <<disk, req, ret>>

\* one pass of GetGrid's sequential loop: the reads of one rank file
GridTile ==
    /\ pc = "GetGrid"
    /\ LET P == pipe
           loc == PipeRanks(P)[tile]
           nIDs == Len(GridIDs(P))
       IN  \E n \in 0..nIDs :
              /\ reads' = reads + Min2(n + 1, nIDs)
              /\ ioError' = (n < nIDs)
              /\ IF n < nIDs
                 THEN \* read n+1 fails
                      /\ pipe' = GridFailed(GridTileWrite(P, disk, loc, n))
                      /\ Raise
                      /\ UNCHANGED bar
                 ELSE /\ bar' = bar + 1
                      /\ IF tile < Len(PipeRanks(P))
                         THEN /\ pipe' = GridTileWrite(P, disk, loc, n)
                              /\ tile' = tile + 1
                              /\ UNCHANGED <<pc, V, coord, datasets>>
                         ELSE /\ pipe' = GridLoaded(GridTileWrite(P, disk, loc, n))
                              /\ pc' = "idle"
                              /\ tile' = 1
                              /\ UNCHANGED <<V, coord, datasets>>
    /\ UNCHANGED <<disk, req, ret, barError>>

\* GetGridParallel: the next future of as_completed(futures); after the last one
\* the merge loop of the coordinate, then the next coordinate
GridFuture ==
    /\ pc = "GetGridParallel"
    /\ LET P == pipe
           vID == ParCoords[coord]
       IN  \E loc \in Running(P, datasets), ok \in BOOLEAN :
              /\ reads' = reads + 1
              /\ ioError' = ~ok
              /\ IF ~ok
                 THEN /\ pipe' = GridFailed(P)
                      /\ Raise
                      /\ UNCHANGED bar
                 ELSE LET done == Append(datasets, PullVarLoc(disk, loc, vID, NoValue))
                      IN  /\ bar' = IF Len(done) = 1 THEN 1 ELSE bar + 1
                          /\ IF Len(done) < Len(PipeRanks(P))
                             THEN /\ datasets' = done
                                  /\ UNCHANGED <<pipe, pc, coord, V, tile>>
                             ELSE /\ datasets' = <<>>
                                  /\ IF coord < Len(ParCoords)
                                     THEN /\ pipe' = MergeGrid(P, vID, done, Len(done))
                                          /\ coord' = coord + 1
                                          /\ UNCHANGED <<pc, V, tile>>
                                     ELSE /\ pipe' = GridLoaded(
                                                 MergeGrid(P, vID, done, Len(done)))
                                          /\ coord' = 1
                                          /\ pc' = "idle"
                                          /\ UNCHANGED <<V, tile>>
    /\ UNCHANGED <<disk, req, ret, barError>>

\* the client calls GetGrid on the pipe it holds
GetGrid ==
    /\ pc = "idle"
    /\ pipe.life = "open"
    /\ bar' = 0
    /\ reads' = 0
    /\ ioError' = FALSE
    /\ barError' = FALSE
    /\ EnterGetGrid(pipe)
    /\ UNCHANGED <<disk, req, ret>>

\* GetVar's entry, called with one of the requests Rs
CallGetVar(Rs) ==
    /\ pc = "idle"
    /\ pipe.life = "open"
    /\ req' \in Rs
    /\ bar' = 0
    /\ reads' = 0
    /\ ioError' = FALSE
    /\ barError' = FALSE
    /\ V' = VarAlloc(pipe)
    /\ datasets' = <<>>
    /\ tile' = 1
    /\ pc' = IF pipe.isMPI /\ pipe.doParallel THEN "GetVarParallel" ELSE "GetVar"
    /\ ret' = NoCall
    /\ UNCHANGED <<disk, pipe, coord>>

\* the client calls GetVar(vID, sID, vScl) on the pipe it holds
GetVar == CallGetVar(Requests)

\* the client calls GetSlice(vID, sID, ijkdir, n): its call of GetVar
GetSlice == CallGetVar(SliceRequests)

\* a read of GetVar raises: nothing catches it
VarReadFailsSkip ==
    IF pc = "GetVar" /\ tile < Len(PipeRanks(pipe))
    THEN /\ tile' = tile + 1
         /\ UNCHANGED <<pc, V, ret, datasets, coord>>
    ELSE /\ ret' = Returned(V)
         /\ Raise

VarReadFails ==
    /\ ret' = Raised
    /\ Raise

\* bar() of GetVar's loops: one more tile shown
BarTickBad(b) == b

BarTick(b) == b + 1

\* bar() raises inside the with block: nothing catches it
BarRaises ==
    /\ barError' = TRUE
    /\ ret' = Raised
    /\ Raise

\* one pass of GetVar's sequential loop
VarTile ==
    /\ pc = "GetVar"
    /\ LET P == pipe
           loc == PipeRanks(P)[tile]
           w == VarTileWrite(P, disk, V, loc, req)
       IN  \E ok \in BOOLEAN :
              /\ reads' = reads + 1
              /\ ioError' = (ioError \/ ~ok)
              /\ IF ~ok
                 THEN /\ VarReadFails
                      /\ UNCHANGED <<bar, barError>>
                 ELSE IF ~w.ok
                 THEN /\ ret' = Raised
                      /\ Raise
                      /\ UNCHANGED <<bar, barError>>
                 ELSE \E shown \in BOOLEAN :
                      IF ~shown
                      THEN /\ BarRaises
                           /\ UNCHANGED bar
                      ELSE /\ bar' = BarTick(bar)
                           /\ UNCHANGED barError
                           /\ IF tile < Len(PipeRanks(P))
                              THEN /\ V' = w.arr
                                   /\ tile' = tile + 1
                                   /\ UNCHANGED <<pc, ret, datasets, coord>>
                              ELSE /\ ret' = Finish(SeqScale(w.arr, req.vScl), req)
                                   /\ pc' = "idle"
                                   /\ V' = EmptyArr
                                   /\ tile' = 1
                                   /\ UNCHANGED <<datasets, coord>>
    /\ UNCHANGED <<disk, req, pipe>>

\* GetVarParallel: the next future of as_completed(futures); after the last one
\* the merge loop, the scaling and the return
VarFuture ==
    /\ pc = "GetVarParallel"
    /\ LET P == pipe
       IN  \E loc \in Running(P, datasets), ok \in BOOLEAN :
              /\ reads' = reads + 1
              /\ ioError' = (ioError \/ ~ok)
              /\ IF ~ok
                 THEN /\ VarReadFails
                      /\ UNCHANGED <<bar, barError>>
                 ELSE LET done == Append(datasets, PullVarLoc(disk, loc, req.vID, req.sID))
                          m == MergeVar(P, V, done, Len(done))
                      IN  \E shown \in BOOLEAN :
                          IF ~shown
                          THEN /\ BarRaises
                               /\ UNCHANGED bar
                          ELSE /\ bar' = BarTick(bar)
                               /\ UNCHANGED barError
                               /\ IF Len(done) < Len(PipeRanks(P))
                                  THEN /\ datasets' = done
                                       /\ UNCHANGED <<pc, V, ret, tile, coord>>
                                  ELSE IF m.ok
                                       THEN /\ ret' = Finish(ParScale(m.arr, req.vScl), req)
                                            /\ pc' = "idle"
                                            /\ V' = EmptyArr
                                            /\ datasets' = <<>>
                                            /\ UNCHANGED <<tile, coord>>
                                       ELSE /\ ret' = Raised
                                            /\ Raise
    /\ UNCHANGED <<disk, req, pipe>>

NextPipe ==
    /\ \/ OpenPipe
       \/ GridTile
       \/ GridFuture
       \/ GetGrid
       \/ GetVar
       \/ VarTile
       \/ VarFuture
    /\ UNCHANGED <<restartVars, gasVars, fluxVars, fnVars>>

SpecPipe == InitPipe /\ [][NextPipe]_vars

(***************************************************************************)
(* A client that reads planes with GetSlice.                               *)
(***************************************************************************)
InitSlice ==
    /\ disk \in {d \in Disks : IF d.is2D THEN ~d.isMPI ELSE Len(RankSeq(d.R)) <= 2}
    /\ req = [vID |-> "D", sID |-> NoValue, vScl |-> NoValue, slice |-> NoValue]
    /\ pipe \in {NewPipe(par, 2) : par \in BOOLEAN}
    /\ pc = "idle"
    /\ V = EmptyArr
    /\ tile = 1
    /\ coord = 1
    /\ datasets = <<>>
    /\ bar = 0
    /\ reads = 0
    /\ ioError = FALSE
    /\ barError = FALSE
    /\ ret = NoCall
    /\ RestartIdle
    /\ GasIdle
    /\ FluxIdle
    /\ FnIdle

NextSlice ==
    /\ \/ OpenPipe
       \/ GridTile
       \/ GridFuture
       \/ GetSlice
       \/ VarTile
       \/ VarFuture
    /\ UNCHANGED <<restartVars, gasVars, fluxVars, fnVars>>

SpecSlice == InitSlice /\ [][NextSlice]_vars

(***************************************************************************)
(* The constructor on directories that hold no database, one, or several.  *)
(***************************************************************************)
GlobResults ==
    {<<>>} \cup {<<R>> : R \in Decomps}
    \cup {<<R, Q>> : R \in {<<1, 1, 2>>, <<2, 1, 1>>}, Q \in {<<1, 2, 1>>, <<1, 1, 1>>}}

Listings == {Listing(old, new, mpi) : old \in BOOLEAN, new \in BOOLEAN, mpi \in GlobResults}

\* the files hold the database f0 belongs to
ListedDisk(ls, dN) ==
    [isMPI |-> IF Locate(ls) = NoValue THEN FALSE ELSE Locate(ls)[1].isMPI,
     is2D |-> FALSE,
     R |-> IF Locate(ls) = NoValue THEN <<1, 1, 1>> ELSE Locate(ls)[1].R,
     dN |-> dN, odd |-> <<>>, ls |-> ls]

InitDiscover ==
    /\ disk \in {ListedDisk(ls, dN) : ls \in Listings, dN \in {<<1, 1, 1>>, <<MaxdN, 1, 1>>}}
    /\ req = [vID |-> "D", sID |-> NoValue, vScl |-> NoValue, slice |-> NoValue]
    /\ pipe \in {NewPipe(par, 2) : par \in BOOLEAN}
    /\ pc = "idle"
    /\ V = EmptyArr
    /\ tile = 1
    /\ coord = 1
    /\ datasets = <<>>
    /\ bar = 0
    /\ reads = 0
    /\ ioError = FALSE
    /\ barError = FALSE
    /\ ret = NoCall
    /\ RestartIdle
    /\ GasIdle
    /\ FluxIdle
    /\ FnIdle

NextDiscover ==
    /\ \/ OpenPipe
       \/ GridTile
       \/ GridFuture
    /\ UNCHANGED <<restartVars, gasVars, fluxVars, fnVars>>

SpecDiscover == InitDiscover /\ [][NextDiscover]_vars

(***************************************************************************)
(* The restart partitioner: PushRestartMPI and PullRestartMPI.             *)
(* The sub-grids X, Y, Z and the attributes that PushRestartMPI also       *)
(* writes are never read back by PullRestartMPI and are left out.          *)
(***************************************************************************)
\* the position of an index in C order
RECURSIVE Lin(_, _, _)
Lin(sh, x, n) == IF n = 0 THEN 0 ELSE Lin(sh, x, n - 1) * sh[n] + x[n]

\* a field whose entries differ from one another
Field(sh, base, seed) ==
    [shape |-> sh, data |-> [x \in Box(sh) |-> base + seed * (1 + Lin(sh, x, Len(sh)))]]

\* (Ns, Nv) of the gas arrays
GasDims == {<<1, 2>>, <<2, 1>>}

\* cells that the decomposition leaves over on the i axis
Ragged == {0, 1}

RestartImage(R, dN, sv, extra, seed, withG0) ==
    LET Ni == R[1] * dN[1] + extra
        Nj == R[2] * dN[2]
        Nk == R[3] * dN[3]
        gs == <<sv[1], sv[2], Nk, Nj, Ni>>
        ms == <<3, Nk + 1, Nj + 1, Ni + 1>>
    IN  [R |-> R,
         G |-> Field(gs, 0, seed),
         M |-> Field(ms, 1000, seed),
         oG |-> Field(gs, 2000, seed),
         oM |-> Field(ms, 3000, seed),
         G0 |-> IF withG0 THEN <<Field(gs, 4000, seed)>> ELSE NoValue]

RestartImages ==
    {RestartImage(R, dN, sv, extra, seed, withG0) :
        R \in Decomps, dN \in RankShapes, sv \in GasDims, extra \in Ragged,
        seed \in {1, 2}, withG0 \in BOOLEAN}

\* Nkp, Njp, Nip of PushRestartMPI
PushDims(I) ==
    <<I.G.shape[3] \div I.R[3], I.G.shape[4] \div I.R[2], I.G.shape[5] \div I.R[1]>>

\* kS, jS, iS of rank (i,j,k) for per-rank sizes dims = (Nkp, Njp, Nip)
RankLoBad(dims, loc) == <<loc[3] * dims[1], loc[2] * dims[2], loc[1] * dims[1]>>

RankLo(dims, loc) == <<loc[3] * dims[1], loc[2] * dims[2], loc[1] * dims[3]>>

\* kE, jE, iE
RankHi(dims, loc) == [a \in 1..3 |-> RankLo(dims, loc)[a] + dims[a]]

\* A[:, :, kS:kE, jS:jE, iS:iE]
GasLo(lo) == <<0, 0>> \o lo

GasHi(A, hi) == <<A.shape[1], A.shape[2]>> \o hi

\* A[:, kS:kE+1, jS:jE+1, iS:iE+1]
FluxLo(lo) == <<0>> \o lo

FluxHi(A, hi) == <<A.shape[1]>> \o PlusOne(hi)

\* the file PushRestartMPI writes for rank loc
PushFile(I, loc) ==
    LET lo == RankLo(PushDims(I), loc)
        hi == RankHi(PushDims(I), loc)
    IN  [Gas |-> SubBlock(I.G, GasLo(lo), GasHi(I.G, hi)),
         magFlux |-> SubBlock(I.M, FluxLo(lo), FluxHi(I.M, hi)),
         oGas |-> SubBlock(I.oG, GasLo(lo), GasHi(I.oG, hi)),
         omagFlux |-> SubBlock(I.oM, FluxLo(lo), FluxHi(I.oM, hi)),
         Gas0 |-> IF I.G0 # NoValue
                  THEN <<SubBlock(I.G0[1], GasLo(lo), GasHi(I.G0[1], hi))>>
                  ELSE NoValue]

\* the doInit block of PullRestartMPI, run on the first file
PullInit(R, f) ==
    LET dims == <<f.Gas.shape[3], f.Gas.shape[4], f.Gas.shape[5]>>
        gs == <<f.Gas.shape[1], f.Gas.shape[2], R[3] * dims[1], R[2] * dims[2], R[1] * dims[3]>>
        ms == <<3, gs[3] + 1, gs[4] + 1, gs[5] + 1>>
        doGas0 == f.Gas0 # NoValue
    IN  [dims |-> dims, doGas0 |-> doGas0,
         G |-> Zeros(gs), oG |-> Zeros(gs),
         G0 |-> IF doGas0 THEN <<Zeros(gs)>> ELSE NoValue,
         M |-> Zeros(ms), oM |-> Zeros(ms)]

\* one pass of PullRestartMPI's loop body after doInit; ok is FALSE when an
\* assignment raises or the file has no Gas0 although the first file had
PullFile(O, f, loc) ==
    LET lo == RankLo(O.dims, loc)
        hi == RankHi(O.dims, loc)
        g == AssignSlice(O.G, GasLo(lo), GasHi(O.G, hi), f.Gas)
        og == AssignSlice(O.oG, GasLo(lo), GasHi(O.oG, hi), f.oGas)
        g0 == IF O.doGas0 /\ f.Gas0 # NoValue
              THEN AssignSlice(O.G0[1], GasLo(lo), GasHi(O.G0[1], hi), f.Gas0[1])
              ELSE [ok |-> ~O.doGas0, arr |-> EmptyArr]
        m == AssignSlice(O.M, FluxLo(lo), FluxHi(O.M, hi), f.magFlux)
        om == AssignSlice(O.oM, FluxLo(lo), FluxHi(O.oM, hi), f.omagFlux)
    IN  [ok |-> g.ok /\ og.ok /\ g0.ok /\ m.ok /\ om.ok,
         out |-> [O EXCEPT !.G = g.arr, !.oG = og.arr,
                           !.G0 = IF O.doGas0 /\ f.Gas0 # NoValue THEN <<g0.arr>> ELSE @,
                           !.M = m.arr, !.oM = om.arr]]

InitRestart ==
    /\ PipeIdle
    /\ GasIdle
    /\ FluxIdle
    /\ FnIdle
    /\ rsIn \in RestartImages
    /\ rsFiles = <<>>
    /\ rsOut = <<>>
    /\ rsPc = "push"
    /\ rsTile = 1

\* one pass of the loops of PushRestartMPI
PushRestartMPI ==
    /\ rsPc = "push"
    /\ rsFiles' = Append(rsFiles, PushFile(rsIn, RankSeq(rsIn.R)[rsTile]))
    /\ IF rsTile = Len(RankSeq(rsIn.R))
       THEN rsPc' = "pull" /\ rsTile' = 1
       ELSE rsPc' = rsPc /\ rsTile' = rsTile + 1
    /\ UNCHANGED <<rsIn, rsOut>>

\* one pass of the loops of PullRestartMPI, called with the Ri, Rj, Rk of the
\* push; the last pass returns G, M, G0, oG, oM
PullRestartMPI ==
    /\ rsPc = "pull"
    /\ LET loc == RankSeq(rsIn.R)[rsTile]
           f == rsFiles[rsTile]
           O == IF rsTile = 1 THEN PullInit(rsIn.R, f) ELSE rsOut
           res == PullFile(O, f, loc)
       IN  /\ rsOut' = res.out
           /\ IF ~res.ok
              THEN rsPc' = "raised" /\ rsTile' = rsTile
              ELSE IF rsTile = Len(RankSeq(rsIn.R))
                   THEN rsPc' = "done" /\ rsTile' = rsTile
                   ELSE rsPc' = rsPc /\ rsTile' = rsTile + 1
    /\ UNCHANGED <<rsIn, rsFiles>>

NextRestart ==
    /\ \/ PushRestartMPI
       \/ PullRestartMPI
    /\ UNCHANGED <<pipeVars, gasVars, fluxVars, fnVars>>

SpecRestart == InitRestart /\ [][NextRestart]_vars

(***************************************************************************)
(* Gas rescaling: Volume, downGas and upGas.  A grid (X,Y,Z) is given by   *)
(* its number of active cells and by the volume scipy's ConvexHull finds   *)
(* for the cell (0,j,i), a positive number.                                *)
(***************************************************************************)
\* dV[:, j, i] = ConvexHull(...).volume
Volume(g) ==
    [shape |-> g.cells,
     data |-> [x \in Box(g.cells) |-> Rat(g.hull[<<x[2], x[3]>>])]]

\* dV[2k:2k+2, 2j:2j+2, 2i:2i+2] as index bounds
ChildLo(c) == <<2 * c[1], 2 * c[2], 2 * c[3]>>

ChildHi(dV, c) == [a \in 1..3 |-> Min2(2 * c[a] + 2, dV.shape[a])]

\* QdV = (dVijk*dQijk).sum() for species s, variable v and coarse cell c
DownQdV(dV, G, s, v, c) ==
    RSum3([x \in Box(dV.shape) |-> RMul(dV.data[x], G.data[<<s, v>> \o x])],
          ChildLo(c), ChildHi(dV, c))

\* Gd[s,v,k,j,i]
DownGasCellBad(dV, G, dVd, x) == DownQdV(dV, G, x[1], x[2], <<x[3], x[4], x[5]>>)

DownGasCell(dV, G, dVd, x) ==
    RDiv(DownQdV(dV, G, x[1], x[2], <<x[3], x[4], x[5]>>), dVd.data[<<x[3], x[4], x[5]>>])

downGas(g, G, gd) ==
    LET dV == Volume(g)
        dVd == Volume(gd)
        sh == <<G.shape[1], G.shape[2], G.shape[3] \div 2, G.shape[4] \div 2, G.shape[5] \div 2>>
    IN  [shape |-> sh, data |-> [x \in Box(sh) |-> DownGasCell(dV, G, dVd, x)]]

\* vScl = dVijk.sum()
ChildVolume(dVu, c) ==
    RSum3(dVu.data, ChildLo(c), ChildHi(dVu, c))

\* Gu[s,v,kk,jj,ii] for the fine cell y = (s,v,kk,jj,ii)
UpGasCellBad(dV, G, dVu, y) == G.data[<<y[1], y[2], y[3] \div 2, y[4] \div 2, y[5] \div 2>>]

UpGasCell(dV, G, dVu, y) ==
    LET c == <<y[3] \div 2, y[4] \div 2, y[5] \div 2>>
        QdV == RMul(G.data[<<y[1], y[2]>> \o c], dV.data[c])
        dVc == dVu.data[<<y[3], y[4], y[5]>>]
        QdVu == RMul(QdV, RDiv(dVc, ChildVolume(dVu, c)))
    IN  RDiv(QdVu, dVc)

upGas(g, G, gu) ==
    LET dV == Volume(g)
        dVu == Volume(gu)
        sh == <<G.shape[1], G.shape[2], 2 * G.shape[3], 2 * G.shape[4], 2 * G.shape[5]>>
    IN  [shape |-> sh, data |-> [y \in Box(sh) |-> UpGasCell(dV, G, dVu, y)]]

\* a grid whose cell volumes differ along j and i
GasGrid(cells, seed) ==
    [cells |-> cells,
     hull |-> [y \in Box(<<cells[2], cells[3]>>) |-> 1 + ((seed * y[1] + y[2] + seed) % 3)]]

\* a gas field with negative, zero and positive entries
GasField(sh) ==
    [shape |-> sh, data |-> [x \in Box(sh) |-> Rat(Lin(sh, x, Len(sh)) - 2)]]

GasCases ==
    {[G |-> GasField(sv \o n),
      grid |-> GasGrid(n, seed),
      gridD |-> GasGrid(<<n[1] \div 2, n[2] \div 2, n[3] \div 2>>, seed + 1),
      gridU |-> GasGrid(<<2 * n[1], 2 * n[2], 2 * n[3]>>, seed + 2)] :
        n \in (1..MaxGasN) \X (1..MaxGasN) \X (1..MaxGasN), sv \in GasDims, seed \in {1, 2}}

InitGas ==
    /\ PipeIdle
    /\ RestartIdle
    /\ FluxIdle
    /\ FnIdle
    /\ gasIn \in GasCases
    /\ gasUp = <<>>
    /\ gasDown = <<>>
    /\ gasPc = "start"

\* Gd = downGas(X,Y,Z,G,Xd,Yd,Zd), or downGas(Xu,Yu,Zu,Gu,X,Y,Z) on upGas's result
DownGas ==
    /\ gasPc \in {"start", "up"}
    /\ IF gasPc = "start"
       THEN gasDown' = downGas(gasIn.grid, gasIn.G, gasIn.gridD) /\ gasPc' = "down"
       ELSE gasDown' = downGas(gasIn.gridU, gasUp, gasIn.grid) /\ gasPc' = "updown"
    /\ UNCHANGED <<gasIn, gasUp>>

\* Gu = upGas(X,Y,Z,G,Xu,Yu,Zu)
UpGas ==
    /\ gasPc = "start"
    /\ gasUp' = upGas(gasIn.grid, gasIn.G, gasIn.gridU)
    /\ gasPc' = "up"
    /\ UNCHANGED <<gasIn, gasDown>>

NextGas ==
    /\ \/ DownGas
       \/ UpGas
    /\ UNCHANGED <<pipeVars, restartVars, fluxVars, fnVars>>

SpecGas == InitGas /\ [][NextGas]_vars

(***************************************************************************)
(* Face fluxes: downFlux and MaxDiv.  The fluxes of the model are          *)
(* integers; downFlux and MaxDiv only add and subtract.                    *)
(***************************************************************************)
IDIR == 0

JDIR == 1

KDIR == 2

\* f[0] + ... + f[n-1]
RECURSIVE Sum(_, _)
Sum(f, n) == IF n = 0 THEN 0 ELSE Sum(f, n - 1) + f[n - 1]

\* M[d, k0:k0+nk, j0:j0+nj, i0:i0+ni].sum()
FaceSum(M, d, lo, len) ==
    Sum([a \in 0..(len[1] - 1) |->
            Sum([b \in 0..(len[2] - 1) |->
                    Sum([c \in 0..(len[3] - 1) |->
                            M.data[<<d, lo[1] + a, lo[2] + b, lo[3] + c>>]],
                        len[3])],
                len[2])],
        len[1])

\* the cells (k,j,i) of three nested loops over range(n[1]), range(n[2]), range(n[3])
CellSeq(n) ==
    [m \in 1..(n[1] * n[2] * n[3]) |->
        <<(m - 1) \div (n[2] * n[3]), ((m - 1) \div n[3]) % n[2], (m - 1) % n[3]>>]

\* the index of the east face read for coarse cell i: ip+2
EastOfBad(ip) == ip + 1

EastOf(ip) == ip + 2

\* the body of downFlux's loop for coarse cell c = (k,j,i)
DownFluxCell(M, Md, c) ==
    LET k == c[1]
        j == c[2]
        i == c[3]
        kp == 2 * k
        jp == 2 * j
        ip == 2 * i
    IN  [Md EXCEPT
           !.data[<<IDIR, k, j, i>>] = FaceSum(M, IDIR, <<kp, jp, ip>>, <<2, 2, 1>>),
           !.data[<<IDIR, k, j, i + 1>>] = FaceSum(M, IDIR, <<kp, jp, EastOf(ip)>>, <<2, 2, 1>>),
           !.data[<<JDIR, k, j, i>>] = FaceSum(M, JDIR, <<kp, jp, ip>>, <<2, 1, 2>>),
           !.data[<<JDIR, k, j + 1, i>>] = FaceSum(M, JDIR, <<kp, jp + 2, ip>>, <<2, 1, 2>>),
           !.data[<<KDIR, k, j, i>>] = FaceSum(M, KDIR, <<kp, jp, ip>>, <<1, 2, 2>>),
           !.data[<<KDIR, k + 1, j, i>>] = FaceSum(M, KDIR, <<kp + 2, jp, ip>>, <<1, 2, 2>>)]

\* Nk//2, Nj//2, Ni//2 for a flux array of shape (Nd, Nk+1, Nj+1, Ni+1)
HalfCells(M) ==
    <<(M.shape[2] - 1) \div 2, (M.shape[3] - 1) \div 2, (M.shape[4] - 1) \div 2>>

\* the first n passes of downFlux's loops
RECURSIVE DownFluxLoop(_, _)
DownFluxLoop(M, n) ==
    IF n = 0
    THEN Zeros(<<M.shape[1]>> \o PlusOne(HalfCells(M)))
    ELSE DownFluxCell(M, DownFluxLoop(M, n - 1), CellSeq(HalfCells(M))[n])

downFlux(M) == DownFluxLoop(M, Len(CellSeq(HalfCells(M))))

\* the array Div that MaxDiv returns
MaxDiv(M) ==
    LET sh == <<M.shape[2] - 1, M.shape[3] - 1, M.shape[4] - 1>>
    IN  [shape |-> sh,
         data |-> [x \in Box(sh) |->
            M.data[<<IDIR, x[1], x[2], x[3] + 1>>] - M.data[<<IDIR, x[1], x[2], x[3]>>]
            + M.data[<<JDIR, x[1], x[2] + 1, x[3]>>] - M.data[<<JDIR, x[1], x[2], x[3]>>]
            + M.data[<<KDIR, x[1] + 1, x[2], x[3]>>] - M.data[<<KDIR, x[1], x[2], x[3]>>]]]

\* np.abs(Div).max() raises ValueError on an array without entries
MaxDivRaises(M) == M.shape[2] = 1 \/ M.shape[3] = 1 \/ M.shape[4] = 1

\* a flux field without divergence: the flux through a face does not change
\* along the face's normal
Solenoidal(n, seed) ==
    [shape |-> <<3>> \o PlusOne(n),
     data |-> [x \in Box(<<3>> \o PlusOne(n)) |->
        CASE x[1] = IDIR -> seed + x[2] + 2 * x[3]
          [] x[1] = JDIR -> seed + 3 * x[2] + x[4]
          [] x[1] = KDIR -> seed + x[3] + 2 * x[4]]]

FluxFields ==
    {Solenoidal(n, seed) : n \in (1..MaxFluxN) \X (1..MaxFluxN) \X (1..MaxFluxN),
                           seed \in {0, 1}}
    \cup {Field(<<3>> \o PlusOne(n), 0, seed) :
             n \in (1..MaxFluxN) \X (1..MaxFluxN) \X (1..MaxFluxN), seed \in {1, 2}}

InitFlux ==
    /\ PipeIdle
    /\ RestartIdle
    /\ GasIdle
    /\ FnIdle
    /\ fluxIn \in FluxFields
    /\ fluxOut = <<>>
    /\ fluxDiv = <<>>
    /\ fluxPc = "start"

\* Div = MaxDiv(M) on the input, and later on downFlux's result
MaxDivCall ==
    /\ fluxPc \in {"start", "down"}
    /\ LET A == IF fluxPc = "start" THEN fluxIn ELSE fluxOut
       IN  IF MaxDivRaises(A)
           THEN fluxPc' = "raised" /\ fluxDiv' = fluxDiv
           ELSE /\ fluxDiv' = Append(fluxDiv, MaxDiv(A))
                /\ fluxPc' = IF fluxPc = "start" THEN "checked" ELSE "done"
    /\ UNCHANGED <<fluxIn, fluxOut>>

\* Md = downFlux(X,Y,Z,M,Xd,Yd,Zd)
DownFlux ==
    /\ fluxPc = "checked"
    /\ fluxOut' = downFlux(fluxIn)
    /\ fluxPc' = "down"
    /\ UNCHANGED <<fluxIn, fluxDiv>>

NextFlux ==
    /\ \/ MaxDivCall
       \/ DownFlux
    /\ UNCHANGED <<pipeVars, restartVars, gasVars, fnVars>>

SpecFlux == InitFlux /\ [][NextFlux]_vars

(***************************************************************************)
(* Face fluxes: upFlux.  0.25*x and 0.5*x are exact here: every entry of   *)
(* a field of UpFluxFields is a multiple of 8.                             *)
(***************************************************************************)
Quarter(x) == x \div 4

Half(x) == x \div 2

\* the indices of the four entries of M[d, lo[1]:lo[1]+len[1], lo[2]:lo[2]+len[2],
\* lo[3]:lo[3]+len[3]], in C order
Block(d, lo, len) ==
    [n \in 1..4 |-> <<d, lo[1] + ((n - 1) \div (len[2] * len[3])),
                         lo[2] + (((n - 1) \div len[3]) % len[2]),
                         lo[3] + ((n - 1) % len[3])>>]

\* Mu[block] = f, entry by entry
SetBlock(Mu, B, f) ==
    [Mu EXCEPT !.data[B[1]] = f[B[1]], !.data[B[2]] = f[B[2]],
               !.data[B[3]] = f[B[3]], !.data[B[4]] = f[B[4]]]

\* the entries of a block
Entries(B) == {B[n] : n \in 1..4}

\* the six assignments of the exterior faces of the coarse cell c = (k,j,i)
UpFluxExterior(M, Mu, c) ==
    LET k == c[1]
        j == c[2]
        i == c[3]
        kp == 2 * k
        jp == 2 * j
        ip == 2 * i
        West == Block(IDIR, <<kp, jp, ip>>, <<2, 2, 1>>)
        East == Block(IDIR, <<kp, jp, ip + 2>>, <<2, 2, 1>>)
        South == Block(JDIR, <<kp, jp, ip>>, <<2, 1, 2>>)
        North == Block(JDIR, <<kp, jp + 2, ip>>, <<2, 1, 2>>)
        Bottom == Block(KDIR, <<kp, jp, ip>>, <<1, 2, 2>>)
        Top == Block(KDIR, <<kp + 2, jp, ip>>, <<1, 2, 2>>)
        M1 == SetBlock(Mu, West, [x \in Entries(West) |-> Quarter(M.data[<<IDIR, k, j, i>>])])
        M2 == SetBlock(M1, East, [x \in Entries(East) |-> Quarter(M.data[<<IDIR, k, j, i + 1>>])])
        M3 == SetBlock(M2, South, [x \in Entries(South) |-> Quarter(M.data[<<JDIR, k, j, i>>])])
        M4 == SetBlock(M3, North, [x \in Entries(North) |-> Quarter(M.data[<<JDIR, k, j + 1, i>>])])
        M5 == SetBlock(M4, Bottom, [x \in Entries(Bottom) |-> Quarter(M.data[<<KDIR, k, j, i>>])])
    IN  SetBlock(M5, Top, [x \in Entries(Top) |-> Quarter(M.data[<<KDIR, k + 1, j, i>>])])

\* the three assignments of the interior faces of the coarse cell c, each read
\* from the array as the assignments before it left it
UpFluxInterior(Mu, c) ==
    LET kp == 2 * c[1]
        jp == 2 * c[2]
        ip == 2 * c[3]
        InI == Block(IDIR, <<kp, jp, ip + 1>>, <<2, 2, 1>>)
        InJ == Block(JDIR, <<kp, jp + 1, ip>>, <<2, 1, 2>>)
        InK == Block(KDIR, <<kp + 1, jp, ip>>, <<1, 2, 2>>)
        M7 == SetBlock(Mu, InI,
                 [x \in Entries(InI) |-> Half(Mu.data[<<IDIR, x[2], x[3], ip>>]
                                     + Mu.data[<<IDIR, x[2], x[3], ip + 2>>])])
        M8 == SetBlock(M7, InJ,
                 [x \in Entries(InJ) |-> Half(M7.data[<<JDIR, x[2], jp, x[4]>>]
                                     + M7.data[<<JDIR, x[2], jp + 2, x[4]>>])])
    IN  SetBlock(M8, InK,
           [x \in Entries(InK) |-> Half(M8.data[<<KDIR, kp, x[3], x[4]>>]
                               + M8.data[<<KDIR, kp + 2, x[3], x[4]>>])])

\* the interior faces taken before the exterior faces of the cell are assigned
UpFluxCellBad(M, Mu, c) == UpFluxExterior(M, UpFluxInterior(Mu, c), c)

\* the body of upFlux's loop for the coarse cell c: exterior, then interior faces
UpFluxCell(M, Mu, c) == UpFluxInterior(UpFluxExterior(M, Mu, c), c)

\* Nk, Nj, Ni for a flux array of shape (Nd, Nk+1, Nj+1, Ni+1)
FluxCells(M) == <<M.shape[2] - 1, M.shape[3] - 1, M.shape[4] - 1>>

\* the array Mu before the first and after each of the first n passes of
\* upFlux's loops, in order
RECURSIVE UpFluxPasses(_, _)
UpFluxPasses(M, n) ==
    IF n = 0
    THEN <<Zeros(<<M.shape[1], 2 * M.shape[2] - 1, 2 * M.shape[3] - 1, 2 * M.shape[4] - 1>>)>>
    ELSE LET T == UpFluxPasses(M, n - 1)
         IN  Append(T, UpFluxCell(M, T[n], CellSeq(FluxCells(M))[n]))

\* Mu after the first n passes of upFlux's loops
UpFluxLoop(M, n) == UpFluxPasses(M, n)[n + 1]

upFlux(M) == UpFluxLoop(M, Len(CellSeq(FluxCells(M))))

\* (Nk, Nj, Ni) of the fields handed to upFlux
UpFluxCells ==
    {n \in (1..MaxUpN) \X (1..MaxUpN) \X (1..MaxUpN) : n[1] * n[2] * n[3] <= MaxUpCells}

UpFluxFields ==
    {Scale(8, Solenoidal(n, seed)) : n \in UpFluxCells, seed \in {0, 1}}
    \cup {Scale(8, Field(<<3>> \o PlusOne(n), 0, seed)) : n \in UpFluxCells, seed \in {1, 2}}

InitUpFlux ==
    /\ PipeIdle
    /\ RestartIdle
    /\ GasIdle
    /\ FnIdle
    /\ fluxIn \in UpFluxFields
    /\ fluxOut = <<>>
    /\ fluxDiv = <<>>
    /\ fluxPc = "start"

\* Mu = upFlux(X,Y,Z,M,Xu,Yu,Zu)
UpFlux ==
    /\ fluxPc = "start"
    /\ fluxOut' = upFlux(fluxIn)
    /\ fluxPc' = "up"
    /\ UNCHANGED <<fluxIn, fluxDiv>>

\* MaxDiv(M) and MaxDiv(Mu)
UpFluxDiv ==
    /\ fluxPc = "up"
    /\ fluxDiv' = <<MaxDiv(fluxIn), MaxDiv(fluxOut)>>
    /\ fluxPc' = "updiv"
    /\ UNCHANGED <<fluxIn, fluxOut>>

\* downFlux(Xu,Yu,Zu,Mu,X,Y,Z) on the array upFlux returned
DownUpFlux ==
    /\ fluxPc \in {"up", "updiv"}
    /\ fluxOut' = downFlux(fluxOut)
    /\ fluxPc' = "updown"
    /\ UNCHANGED <<fluxIn, fluxDiv>>

NextUpFlux ==
    /\ \/ UpFlux
       \/ UpFluxDiv
       \/ DownUpFlux
    /\ UNCHANGED <<pipeVars, restartVars, gasVars, fnVars>>

SpecUpFlux == InitUpFlux /\ [][NextUpFlux]_vars

(***************************************************************************)
(* The volt fields (gBAvg, gBHist): downVolt and upVolt.                   *)
(***************************************************************************)
\* what a function gives that raised
FnRaised == [ok |-> FALSE, arr |-> EmptyArr]

FnReturned(A) == [ok |-> TRUE, arr |-> A]

\* G[d, k0:k0+2, j0:j0+2, i].mean() for the coarse cell x = (d,k,j,i)
VoltMean(G, x) ==
    Frac(Sum([a \in 0..1 |->
                 Sum([b \in 0..1 |-> G.data[<<x[1], 2 * x[2] + a, 2 * x[3] + b, x[4]>>]], 2)],
             2),
         2 * 2)

\* downVolt(G): Nd, Nk, Nj, Ni = G.shape raises unless G has 4 axes
downVolt(G) ==
    IF Len(G.shape) # 4 THEN FnRaised
    ELSE LET sh == <<G.shape[1], G.shape[2] \div 2, G.shape[3] \div 2, G.shape[4]>>
         IN  FnReturned([shape |-> sh, data |-> [x \in Box(sh) |-> VoltMean(G, x)]])

\* the coarse cell whose value upVolt copies into the fine cell y
VoltParent(y) == [y EXCEPT ![2] = @ \div 2, ![3] = @ \div 2]

\* upVolt(G): the try block for 4 axes, the except block for 5
upVolt(G) ==
    IF Len(G.shape) \in {4, 5}
    THEN LET sh == [G.shape EXCEPT ![2] = 2 * @, ![3] = 2 * @]
         IN  FnReturned([shape |-> sh, data |-> [y \in Box(sh) |-> G.data[VoltParent(y)]]])
    ELSE FnRaised

VoltField(sh) ==
    [shape |-> sh, data |-> [x \in Box(sh) |-> Lin(sh, x, Len(sh)) - 1]]

\* 4D fields (Nd,Nk,Nj,Ni) and 5D fields (Nd,Nk,Nj,Ni,Nh)
VoltFields ==
    {VoltField(<<Nd, Nk, Nj, Ni>> \o h) :
        Nd \in 1..2, Nk \in 1..MaxVoltN, Nj \in 1..MaxVoltN, Ni \in 1..2,
        h \in {<<>>, <<1>>, <<2>>}}

InitVolt ==
    /\ PipeIdle
    /\ RestartIdle
    /\ GasIdle
    /\ FluxIdle
    /\ fnArg \in VoltFields
    /\ fnRes = <<>>
    /\ fnPc = "start"

DownVolt ==
    /\ fnPc = "start"
    /\ fnRes' = downVolt(fnArg)
    /\ fnPc' = "downVolt"
    /\ UNCHANGED fnArg

UpVolt ==
    /\ fnPc = "start"
    /\ fnRes' = upVolt(fnArg)
    /\ fnPc' = "upVolt"
    /\ UNCHANGED fnArg

NextVolt ==
    /\ \/ DownVolt
       \/ UpVolt
    /\ UNCHANGED <<pipeVars, restartVars, gasVars, fluxVars>>

SpecVolt == InitVolt /\ [][NextVolt]_vars

(***************************************************************************)
(* upRCMCpl, upRCM, upRCM1Dw, upRCM1D (magsphereRescale.py 523-646).       *)
(***************************************************************************)
\* Qr[2*i:2*i+2, j] = Q[i,j]
upRCM1D(Q) ==
    [shape |-> <<2 * Q.shape[1], Q.shape[2]>>,
     data |-> [x \in Box(<<2 * Q.shape[1], Q.shape[2]>>) |-> Q.data[<<x[1] \div 2, x[2]>>]]]

SetRowBad(A, i, src) == A

\* A[i,:] = A[src,:]
SetRow(A, i, src) ==
    [A EXCEPT !.data = [x \in Box(A.shape) |->
                          IF x[1] = i THEN A.data[<<src, x[2]>>] ELSE A.data[x]]]

\* np.zeros raises on a negative size, Qr[Nri-2,:] on an array without rows
upRCM1Dw(Q) ==
    LET Ni == Q.shape[1]
        Nj == Q.shape[2]
        Nri == (Ni - 2) * 2 + 2
        head == SubBlock(Q, <<0, 0>>, <<Max2(Ni - 2, 0), Nj>>)
        Qr == AssignSlice(Zeros(<<Nri, Nj>>), <<0, 0>>, <<Max2(Nri - 2, 0), Nj>>,
                          upRCM1D(head))
    IN  IF Nri < 0 THEN FnRaised
        ELSE IF ~Qr.ok \/ Nri < 2 THEN FnRaised
        ELSE FnReturned(SetRow(SetRow(Qr.arr, Nri - 2, 0), Nri - 1, 1))

\* Q2D = np.zeros((N, 1)); Q2D[:, 0] = Q
Promote(Q) == [shape |-> <<Q.shape[1], 1>>, data |-> [x \in Box(<<Q.shape[1], 1>>) |-> Q.data[<<x[1]>>]]]

\* Qr2D[:, 0]
Demote(A) == [shape |-> <<A.shape[1]>>, data |-> [x \in Box(<<A.shape[1]>>) |-> A.data[<<x[1], 0>>]]]

\* Q[n, :, :]
PlaneOf(Q, n) ==
    [shape |-> <<Q.shape[2], Q.shape[3]>>,
     data |-> [y \in Box(<<Q.shape[2], Q.shape[3]>>) |-> Q.data[<<n, y[1], y[2]>>]]]

upRCMCplBad(Q, N) ==
    CASE Len(Q.shape) = 1 -> FnReturned(Demote(upRCM1D(Promote(Q))))
      [] Len(Q.shape) = 2 -> FnReturned(upRCM1D(Q))
      [] OTHER -> FnReturned(Q)

upRCMCpl(Q, N) ==
    CASE Len(Q.shape) = 1 ->
            IF Q.shape[1] = N THEN FnReturned(Demote(upRCM1D(Promote(Q))))
                              ELSE FnReturned(Q)
      [] Len(Q.shape) = 2 -> FnReturned(upRCM1D(Q))
      [] OTHER ->
            FnReturned([shape |-> <<Q.shape[1], 2 * Q.shape[2], Q.shape[3]>>,
                        data |-> [x \in Box(<<Q.shape[1], 2 * Q.shape[2], Q.shape[3]>>) |->
                                    upRCM1D(PlaneOf(Q, x[1])).data[<<x[2], x[3]>>]]])

\* the first n passes of upRCM's loop: Qr[n, :, :] = upRCM1Dw(Q[n, :, :])
RECURSIVE UpRCMLoop(_, _, _)
UpRCMLoop(Q, Qr, n) ==
    IF n = 0 THEN FnReturned(Qr)
    ELSE LET prev == UpRCMLoop(Q, Qr, n - 1)
             w == upRCM1Dw(PlaneOf(Q, n - 1))
             a == AssignSlice(prev.arr, <<n - 1, 0, 0>>, <<n, Qr.shape[2], Qr.shape[3]>>,
                              w.arr)
         IN  IF prev.ok /\ w.ok /\ a.ok THEN FnReturned(a.arr) ELSE FnRaised

upRCM(Q, Ni, Nj) ==
    CASE Len(Q.shape) = 1 ->
            IF Q.shape[1] = Nj
            THEN LET w == upRCM1Dw(Promote(Q))
                 IN  IF w.ok THEN FnReturned(Demote(w.arr)) ELSE FnRaised
            ELSE FnReturned(Q)
      [] Len(Q.shape) = 2 -> upRCM1Dw(Q)
      [] OTHER ->
            IF (Nj - 2) * 2 + 2 < 0 THEN FnRaised
            ELSE UpRCMLoop(Q, Zeros(<<Q.shape[1], (Nj - 2) * 2 + 2, Ni>>), Q.shape[1])

RcmArray(sh) == [shape |-> sh, data |-> [x \in Box(sh) |-> Lin(sh, x, Len(sh)) + 1]]

\* 1D, 2D and 3D arrays
RcmArrays ==
    {RcmArray(<<n>>) : n \in 0..MaxRcmN}
    \cup {RcmArray(<<n, m>>) : n \in 0..MaxRcmN, m \in 1..2}
    \cup {RcmArray(<<k, n, m>>) : k \in 1..2, n \in 2..MaxRcmN, m \in 1..2}

\* Q with N of upRCMCpl, which is also Nj of upRCM, and Ni of upRCM
RcmArgs == [Q : RcmArrays, N : 0..(MaxRcmN + 1), Ni : 1..2]

InitRCM ==
    /\ PipeIdle
    /\ RestartIdle
    /\ GasIdle
    /\ FluxIdle
    /\ fnArg \in RcmArgs
    /\ fnRes = <<>>
    /\ fnPc = "start"

UpRCMCpl ==
    /\ fnPc = "start"
    /\ fnRes' = upRCMCpl(fnArg.Q, fnArg.N)
    /\ fnPc' = "upRCMCpl"
    /\ UNCHANGED fnArg

UpRCM ==
    /\ fnPc = "start"
    /\ fnRes' = upRCM(fnArg.Q, fnArg.Ni, fnArg.N)
    /\ fnPc' = "upRCM"
    /\ UNCHANGED fnArg

\* Qr = upRCM1Dw(Q): Ni, Nj = Q.shape raises unless Q is 2D
UpRCM1Dw ==
    /\ fnPc = "start"
    /\ fnRes' = IF Len(fnArg.Q.shape) = 2 THEN upRCM1Dw(fnArg.Q) ELSE FnRaised
    /\ fnPc' = "upRCM1Dw"
    /\ UNCHANGED fnArg

NextRCM ==
    /\ \/ UpRCMCpl
       \/ UpRCM
       \/ UpRCM1Dw
    /\ UNCHANGED <<pipeVars, restartVars, gasVars, fluxVars>>

SpecRCM == InitRCM /\ [][NextRCM]_vars

(***************************************************************************)
(* upGrid: the doubled polar node arrays rrH and ppH (magsphereRescale.py  *)
(* 289-316).  rr and pp are taken as given; their entries are multiples of *)
(* 4, so that 0.5*x and 0.25*x are exact.                                  *)
(***************************************************************************)
\* rrH = np.zeros((NiH+1,NjH+1)) and the loop that embeds the old points
EmbedOld(rr) ==
    LET sh == <<2 * (rr.shape[1] - 1) + 1, 2 * (rr.shape[2] - 1) + 1>>
    IN  [shape |-> sh,
         data |-> [x \in Box(sh) |->
                     IF x[1] % 2 = 0 /\ x[2] % 2 = 0
                     THEN rr.data[<<x[1] \div 2, x[2] \div 2>>]
                     ELSE 0]]

IMidpointsBad(H) == H

\* rrH[2*i+1,:] = 0.5*( rrH[2*i,:] + rrH[2*i+2,:] ) for i in range(Ni): whole
\* rows, read from the even rows only
IMidpoints(H) ==
    [H EXCEPT !.data = [x \in Box(H.shape) |->
        IF x[1] % 2 = 1
        THEN Half(H.data[<<x[1] - 1, x[2]>>] + H.data[<<x[1] + 1, x[2]>>])
        ELSE H.data[x]]]

\* rrH[:,2*j+1] = 0.5*( rrH[:,2*j] + rrH[:,2*j+2]) for j in range(Nj): whole
\* columns, read from the even columns only
JMidpoints(H) ==
    [H EXCEPT !.data = [x \in Box(H.shape) |->
        IF x[2] % 2 = 1
        THEN Half(H.data[<<x[1], x[2] - 1>>] + H.data[<<x[1], x[2] + 1>>])
        ELSE H.data[x]]]

\* rrH[2*i+1,2*j+1] = 0.25*( the four corners ) for i in range(Ni), j in range(Nj)
IJMidpoints(H) ==
    [H EXCEPT !.data = [x \in Box(H.shape) |->
        IF x[1] % 2 = 1 /\ x[2] % 2 = 1
        THEN Quarter(H.data[<<x[1] - 1, x[2] - 1>>] + H.data[<<x[1] - 1, x[2] + 1>>]
                     + H.data[<<x[1] + 1, x[2] - 1>>] + H.data[<<x[1] + 1, x[2] + 1>>])
        ELSE H.data[x]]]

\* rrH (or ppH) as upGrid leaves it before the conversion back to Cartesian
DoublePolar(rr) == IJMidpoints(JMidpoints(IMidpoints(EmbedOld(rr))))

\* rr and pp of (Ni+1) x (Nj+1) nodes
PolarGrids ==
    {[rr |-> Scale(4, Field(<<ni + 1, nj + 1>>, base, seed)),
      pp |-> Scale(4, Field(<<ni + 1, nj + 1>>, 0 - 3, turn))] :
        ni \in 1..MaxGridN, nj \in 1..MaxGridN, base \in 0..2, seed \in 1..3, turn \in 1..2}

InitUpGrid ==
    /\ PipeIdle
    /\ RestartIdle
    /\ GasIdle
    /\ FluxIdle
    /\ fnArg \in PolarGrids
    /\ fnRes = <<>>
    /\ fnPc = "start"

\* upGrid up to rrH and ppH
UpGridPolar ==
    /\ fnPc = "start"
    /\ fnRes' = [rrH |-> DoublePolar(fnArg.rr), ppH |-> DoublePolar(fnArg.pp)]
    /\ fnPc' = "upGrid"
    /\ UNCHANGED fnArg

NextUpGrid ==
    /\ UpGridPolar
    /\ UNCHANGED <<pipeVars, restartVars, gasVars, fluxVars>>

SpecUpGrid == InitUpGrid /\ [][NextUpGrid]_vars

(***************************************************************************)
(* Directories in which one rank's datasets do not have the shape of the   *)
(* first file's: GetVar and PullRestartMPI take the shape of every rank    *)
(* from the first file (gampp.py 176, magsphereRescale.py 156-176) and     *)
(* assign each rank's dataset to its slice (gampp.py 403-418, 458-476,     *)
(* magsphereRescale.py 186-192).                                          *)
(***************************************************************************)
LastRank(R) == RankSeq(R)[Len(RankSeq(R))]

\* shapes a dataset of 3 + Len(lead) dimensions can have instead of lead \o dN:
\* size-1 axes, fewer dimensions, one axis longer
OddShapes(lead, dN) ==
    {lead \o <<1, 1, 1>>, <<dN[3]>>, lead \o <<dN[1], dN[2], dN[3] + 1>>} \ {lead \o dN}

MismatchDisks ==
    UNION {{[isMPI |-> TRUE, is2D |-> FALSE, R |-> R, dN |-> dN,
             odd |-> <<[loc |-> LastRank(R), shape |-> sh]>>,
             ls |-> OneDatabase(TRUE, R)] :
               R \in {Q \in Decomps : Len(RankSeq(Q)) > 1}, sh \in OddShapes(<<>>, dN)} :
           dN \in RankShapes}

\* the files PushRestartMPI writes, the last rank's Gas replaced
MismatchFiles(I, sh) ==
    [n \in 1..Len(RankSeq(I.R)) |->
        IF n = Len(RankSeq(I.R))
        THEN [PushFile(I, RankSeq(I.R)[n]) EXCEPT !.Gas = OddVar(sh)]
        ELSE PushFile(I, RankSeq(I.R)[n])]

MismatchImages ==
    {RestartImage(R, dN, <<1, 2>>, 0, 1, FALSE) :
        R \in {Q \in Decomps : Len(RankSeq(Q)) > 1}, dN \in RankShapes}

InitMismatch ==
    /\ GasIdle
    /\ FluxIdle
    /\ FnIdle
    /\ \/ /\ RestartIdle
          /\ disk \in MismatchDisks
          /\ req = [vID |-> "D", sID |-> NoValue, vScl |-> NoValue, slice |-> NoValue]
          /\ pipe \in {NewPipe(par, 2) : par \in BOOLEAN}
          /\ pc = "idle"
          /\ V = EmptyArr
          /\ tile = 1
          /\ coord = 1
          /\ datasets = <<>>
          /\ bar = 0
          /\ reads = 0
          /\ ioError = FALSE
          /\ barError = FALSE
          /\ ret = NoCall
       \/ /\ PipeIdle
          /\ rsIn \in MismatchImages
          /\ \E sh \in OddShapes(<<1, 2>>, PushDims(rsIn)) :
                rsFiles = MismatchFiles(rsIn, sh)
          /\ rsOut = <<>>
          /\ rsPc = "pull"
          /\ rsTile = 1

NextMismatch ==
    \/ NextPipe
    \/ PullRestartMPI /\ UNCHANGED <<pipeVars, gasVars, fluxVars, fnVars>>

SpecMismatch == InitMismatch /\ [][NextMismatch]_vars

(***************************************************************************)
(* Rank files that disagree on the flux layers they share: the file of the *)
(* n-th rank holds that rank's blocks of an image of its own, and two      *)
(* images differ in every entry.  PullRestartMPI merges them.              *)
(***************************************************************************)
DisagreeingFiles(R, dN, sv, withG0) ==
    [n \in 1..Len(RankSeq(R)) |->
        PushFile(RestartImage(R, dN, sv, 0, n, withG0), RankSeq(R)[n])]

InitOverlap ==
    /\ PipeIdle
    /\ GasIdle
    /\ FluxIdle
    /\ FnIdle
    /\ \E R \in Decomps, dN \in RankShapes, withG0 \in BOOLEAN :
          /\ rsIn = RestartImage(R, dN, <<1, 2>>, 0, 1, withG0)
          /\ rsFiles = DisagreeingFiles(R, dN, <<1, 2>>, withG0)
    /\ rsOut = <<>>
    /\ rsPc = "pull"
    /\ rsTile = 1

NextOverlap == PullRestartMPI /\ UNCHANGED <<pipeVars, gasVars, fluxVars, fnVars>>

SpecOverlap == InitOverlap /\ [][NextOverlap]_vars

(***************************************************************************)
(* GetVar as a function of the files and the arguments, for a read with no *)
(* failure.                                                                *)
(***************************************************************************)
\* the results of the futures in submission order
RankDatasets(P, d, r) ==
    [n \in 1..Len(PipeRanks(P)) |-> PullVarLoc(d, PipeRanks(P)[n], r.vID, r.sID)]

\* GetVarParallel when the futures complete in submission order
GetVarParallelResult(P, d, r) ==
    ParScale(MergeVar(P, VarAlloc(P), RankDatasets(P, d, r), Len(PipeRanks(P))).arr, r.vScl)

\* the first n passes of GetVar's sequential loop
RECURSIVE SeqAssemble(_, _, _, _)
SeqAssemble(P, d, r, n) ==
    IF n = 0 THEN VarAlloc(P)
    ELSE VarTileWrite(P, d, SeqAssemble(P, d, r, n - 1), PipeRanks(P)[n], r).arr

\* GetVar's sequential branch
GetVarSequentialResult(P, d, r) == SeqScale(SeqAssemble(P, d, r, Len(PipeRanks(P))), r.vScl)

\* GetVar in the pipe's own mode
GetVarResult(P, d, r) ==
    IF P.isMPI /\ P.doParallel THEN GetVarParallelResult(P, d, r)
                               ELSE GetVarSequentialResult(P, d, r)

\* the ranks of the directory and the index range each owns
DiskRanks == {RankSeq(disk.R)[n] : n \in 1..Len(RankSeq(disk.R))}

DiskDim == IF disk.is2D THEN 2 ELSE 3

OwnLo(loc) == [a \in 1..DiskDim |-> loc[a] * disk.dN[a]]

OwnHi(loc) == [a \in 1..DiskDim |-> (loc[a] + 1) * disk.dN[a]]

Owns(loc, x) == \A a \in 1..DiskDim : OwnLo(loc)[a] <= x[a] /\ x[a] < OwnHi(loc)[a]

GetVarReturned == pc = "idle" /\ ret.kind = "array"

(***************************************************************************)
(* C1: when GetVar returns V for a read without scaling, V has the global  *)
(* cell shape, for every rank (i,j,k) the sub-block                        *)
(* V[i*dNi:(i+1)*dNi, j*dNj:(j+1)*dNj, k*dNk:(k+1)*dNk] is the dataset of  *)
(* that rank's file, every cell of V lies in exactly one such sub-block,   *)
(* and with a single rank V is the sole file's dataset.                    *)
(***************************************************************************)
C1_TilePlacement ==
    (GetVarReturned /\ req.vScl = NoValue) =>
        /\ ret.val.shape = [a \in 1..DiskDim |-> disk.R[a] * disk.dN[a]]
        /\ \A loc \in DiskRanks :
              SubBlock(ret.val, OwnLo(loc), OwnHi(loc)) = FileVar(disk, loc, req.vID, req.sID)
        /\ \A x \in Box(ret.val.shape) :
              Cardinality({loc \in DiskRanks : Owns(loc, x)}) = 1
        /\ (disk.R = <<1, 1, 1>> =>
              ret.val = FileVar(disk, <<0, 0, 0>>, req.vID, req.sID))

C1_Witness ==
    /\ GetVarReturned
    /\ req.vScl = NoValue
    /\ req.vID = "D"
    /\ disk.R = <<2, 1, 2>>
    /\ disk.dN = <<2, 1, 1>>
    /\ pipe.doParallel

(***************************************************************************)
(* C2: on MPI rank files every array GetVar returns, in sequential mode    *)
(* and in concurrent mode with any worker count, is the array              *)
(* GetVarParallel assembles from those files for the same arguments.       *)
(***************************************************************************)
C2_SequentialEqualsConcurrent ==
    (GetVarReturned /\ disk.isMPI) => ret.val = GetVarParallelResult(pipe, disk, req)

(***************************************************************************)
(* C3: GetVar(vID, sID, vScl=s) with s not None returns s times the array  *)
(* GetVar(vID, sID, vScl=None) returns, in the pipe's mode.                *)
(***************************************************************************)
C3_ScaleApplied ==
    (GetVarReturned /\ req.vScl # NoValue) =>
        ret.val = Scale(req.vScl[1], GetVarResult(pipe, disk, [req EXCEPT !.vScl = NoValue]))

(***************************************************************************)
(* C9: once gridLoaded is True no step sets it back to False or changes X, *)
(* Y, Z or dV, and a call of GetGrid then reads no file and returns at     *)
(* once leaving the pipe as it was.                                        *)
(***************************************************************************)
C9_GetGridIdempotent ==
    [][/\ pipe.gridLoaded =>
             /\ pipe'.gridLoaded
             /\ pipe'.X = pipe.X /\ pipe'.Y = pipe.Y /\ pipe'.Z = pipe.Z
             /\ pipe'.dV = pipe.dV
       /\ (GetGrid /\ pipe.gridLoaded) =>
             /\ reads' = 0
             /\ pc' = "idle"
             /\ pipe' = pipe]_vars

C9_Witness ==
    /\ pc = "idle"
    /\ pipe.life = "open"
    /\ pipe.gridLoaded
    /\ reads = 0
    /\ pipe.X.shape = <<disk.R[1] * disk.dN[1] + 1, disk.R[2] * disk.dN[2] + 1,
                        disk.R[3] * disk.dN[3] + 1>>
    /\ disk.R = <<2, 2, 1>>

(***************************************************************************)
(* C10: if a rank file's read fails during GetVar, the call ends there     *)
(* with the error raised to the caller, and no array is returned.          *)
(***************************************************************************)
C10_ReadErrorRaises ==
    (ioError /\ pipe.life = "open") => (pc = "idle" /\ ret = Raised)

C10_Witness ==
    /\ ioError
    /\ pipe.life = "open"
    /\ ret = Raised
    /\ bar >= 1
    /\ pipe.doParallel
    /\ pipe.isMPI

(***************************************************************************)
(* C4: when Ri divides Ni, Rj divides Nj and Rk divides Nk, PullRestartMPI *)
(* on the files PushRestartMPI wrote never raises and returns G, M, oG and *)
(* oM equal to the arrays pushed, and G0 equal to the G0 pushed, None      *)
(* when None was pushed.                                                   *)
(***************************************************************************)
RanksDivide(I) ==
    /\ I.G.shape[5] % I.R[1] = 0
    /\ I.G.shape[4] % I.R[2] = 0
    /\ I.G.shape[3] % I.R[3] = 0

C4_RestartRoundTrip ==
    (rsPc \in {"pull", "done", "raised"} /\ RanksDivide(rsIn)) =>
        /\ rsPc # "raised"
        /\ rsPc = "done" =>
              /\ rsOut.G = rsIn.G
              /\ rsOut.M = rsIn.M
              /\ rsOut.oG = rsIn.oG
              /\ rsOut.oM = rsIn.oM
              /\ rsOut.G0 = rsIn.G0

C4_Witness ==
    /\ rsPc = "done"
    /\ rsIn.R = <<2, 1, 2>>
    /\ rsIn.G.shape = <<1, 2, 2, 1, 4>>
    /\ rsIn.G0 = NoValue
    /\ rsOut.G0 = NoValue
    /\ rsOut.M = rsIn.M

(***************************************************************************)
(* Totals of density times volume.                                         *)
(***************************************************************************)
\* the sum of A[s,v,k,j,i]*dV[k,j,i] over the cells below hi on each axis
Total(A, dV, s, v, hi) ==
    RSum3([x \in Box(dV.shape) |-> RMul(A.data[<<s, v>> \o x], dV.data[x])],
          <<0, 0, 0>>, hi)

SpatialShape(A) == <<A.shape[3], A.shape[4], A.shape[5]>>

SpeciesVars(A) == (0..(A.shape[1] - 1)) \X (0..(A.shape[2] - 1))

\* the fine cells that lie in a complete 2x2x2 block
Paired(A) == [a \in 1..3 |-> 2 * (SpatialShape(A)[a] \div 2)]

ChildTotal(Gu, dVu, s, v, c) ==
    RSum3([x \in Box(dVu.shape) |-> RMul(Gu.data[<<s, v>> \o x], dVu.data[x])],
          ChildLo(c), ChildHi(dVu, c))

C6_UpGasRedistributes ==
    gasPc = "up" =>
        /\ gasUp.shape = <<gasIn.G.shape[1], gasIn.G.shape[2], 2 * gasIn.G.shape[3],
                           2 * gasIn.G.shape[4], 2 * gasIn.G.shape[5]>>
        /\ \A x \in Box(gasIn.G.shape) :
              ChildTotal(gasUp, Volume(gasIn.gridU), x[1], x[2], <<x[3], x[4], x[5]>>)
                = RMul(gasIn.G.data[x], Volume(gasIn.grid).data[<<x[3], x[4], x[5]>>])

C6_Witness ==
    /\ gasPc = "up"
    /\ gasIn.G.shape = <<2, 1, 2, 3, 2>>
    /\ gasIn.G.data[<<1, 0, 1, 2, 1>>] # Rat(0)
    /\ ChildVolume(Volume(gasIn.gridU), <<1, 2, 1>>) # Volume(gasIn.grid).data[<<1, 2, 1>>]
    /\ gasUp.data[<<1, 0, 2, 4, 3>>] # gasIn.G.data[<<1, 0, 1, 2, 1>>]

(***************************************************************************)
(* C7: downGas on the doubled grid, applied to upGas's result, gives an    *)
(* array of G's shape that equals G at every cell.                         *)
(***************************************************************************)
C7_DownOfUpIsIdentity ==
    gasPc = "updown" =>
        /\ gasDown.shape = gasIn.G.shape
        /\ \A x \in Box(gasIn.G.shape) : gasDown.data[x] = gasIn.G.data[x]

C7_Witness ==
    /\ gasPc = "updown"
    /\ gasIn.G.shape = <<1, 2, 3, 2, 3>>
    /\ gasDown.data[<<0, 1, 2, 1, 2>>] = Rat(33)
    /\ gasUp.data[<<0, 1, 4, 2, 4>>] # Rat(33)

(***************************************************************************)
(* C8: the divergence MaxDiv finds in a coarse cell of downFlux(M) is the  *)
(* sum of the divergences it finds in the cell's 8 fine cells of M; so     *)
(* when every fine cell of M has divergence 0, every coarse cell of        *)
(* downFlux(M) has divergence 0.                                           *)
(***************************************************************************)
ChildDivSum(Div, c) ==
    Sum([a \in 0..1 |->
            Sum([b \in 0..1 |->
                    Sum([e \in 0..1 |->
                            Div.data[<<2 * c[1] + a, 2 * c[2] + b, 2 * c[3] + e>>]], 2)], 2)], 2)

C8_DownFluxDivergence ==
    fluxPc = "done" =>
        /\ fluxDiv[2].shape = HalfCells(fluxIn)
        /\ \A c \in Box(fluxDiv[2].shape) : fluxDiv[2].data[c] = ChildDivSum(fluxDiv[1], c)
        /\ (\A x \in Box(fluxDiv[1].shape) : fluxDiv[1].data[x] = 0) =>
              \A c \in Box(fluxDiv[2].shape) : fluxDiv[2].data[c] = 0

C8_Witness ==
    /\ fluxPc = "done"
    /\ fluxIn.shape = <<3, 3, 4, 3>>
    /\ \A x \in Box(fluxDiv[1].shape) : fluxDiv[1].data[x] = 0
    /\ fluxDiv[2].shape = <<1, 1, 1>>
    /\ fluxDiv[2].data[<<0, 0, 0>>] = 0
    /\ fluxOut.data[<<IDIR, 0, 0, 1>>] > 0
    /\ fluxOut.data[<<IDIR, 0, 0, 1>>] = fluxOut.data[<<IDIR, 0, 0, 0>>]

(***************************************************************************)
(* C11: on 3D MPI files, whose neighbouring ranks hold the same            *)
(* coordinates on their shared layer of nodes, once GetGrid has returned   *)
(* to the constructor (the grid is not written again, see C9)              *)
(* the block X[i*dNi : i*dNi+dNi+1, j*dNj : j*dNj+dNj+1,                   *)
(* k*dNk : k*dNk+dNk+1] is the X dataset of rank (i,j,k), likewise for Y   *)
(* and Z, and the blocks of two neighbouring ranks share exactly one layer *)
(* of nodes.                                                               *)
(***************************************************************************)
NodeRange(loc, a) == OwnLo(loc)[a]..OwnHi(loc)[a]

Neighbour(loc, a) == [loc EXCEPT ![a] = @ + 1]

C11_NodePlacement ==
    (pipe.gridLoaded /\ pc = "idle" /\ ret = NoCall /\ disk.isMPI /\ ~disk.is2D) =>
        \A loc \in DiskRanks :
            /\ SubBlock(pipe.X, OwnLo(loc), PlusOne(OwnHi(loc))) = FileGrid(disk, loc, "X")
            /\ SubBlock(pipe.Y, OwnLo(loc), PlusOne(OwnHi(loc))) = FileGrid(disk, loc, "Y")
            /\ SubBlock(pipe.Z, OwnLo(loc), PlusOne(OwnHi(loc))) = FileGrid(disk, loc, "Z")
            /\ \A a \in 1..3 :
                  Neighbour(loc, a) \in DiskRanks =>
                      Cardinality(NodeRange(loc, a) \cap NodeRange(Neighbour(loc, a), a)) = 1

C11_Witness ==
    /\ pipe.gridLoaded
    /\ pc = "idle"
    /\ disk.isMPI
    /\ ~disk.is2D
    /\ disk.R = <<2, 2, 1>>
    /\ disk.dN = <<2, 1, 1>>
    /\ pipe.doParallel
    /\ pipe.X.shape = <<5, 3, 2>>
    /\ pipe.X.data[<<2, 1, 0>>] = FileGrid(disk, <<1, 0, 0>>, "X").data[<<0, 1, 0>>]
    /\ pipe.Y.data[<<4, 1, 1>>] = FileGrid(disk, <<1, 1, 0>>, "Y").data[<<2, 0, 1>>]

(***************************************************************************)
(* C12: when GetGrid has returned with gridLoaded True, on 3D files X, Y   *)
(* and Z are assembled (Ni+1,Nj+1,Nk+1) arrays and dV is an assembled      *)
(* (Ni,Nj,Nk) array, on 2D files X and Y are assembled (Ni+1,Nj+1) arrays, *)
(* in sequential and in concurrent mode alike; so a pipe's construction    *)
(* fails only when a read fails.                                           *)
(***************************************************************************)
GlobalCells == [a \in 1..DiskDim |-> disk.R[a] * disk.dN[a]]

Assembled(A, sh, vID) ==
    /\ A.shape = sh
    /\ \A loc \in DiskRanks :
          \A x \in Box(FileGrid(disk, loc, vID).shape) :
              A.data[GlobalIndex(disk, loc, x)] = FileGrid(disk, loc, vID).data[x]

C12_GridComplete ==
    /\ (pipe.gridLoaded /\ pipe.life = "open") =>
          /\ Assembled(pipe.X, PlusOne(GlobalCells), "X")
          /\ Assembled(pipe.Y, PlusOne(GlobalCells), "Y")
          /\ ~disk.is2D => /\ Assembled(pipe.Z, PlusOne(GlobalCells), "Z")
                           /\ Assembled(pipe.dV, GlobalCells, "dV")
    /\ pipe.life = "failed" => ioError

(***************************************************************************)
(* C13: downVolt and upVolt each return, without raising, for a 4D field   *)
(* (Nd,Nk,Nj,Ni) and for a 5D field (Nd,Nk,Nj,Ni,Nh); for a 5D field the   *)
(* result at every index h of the trailing axis is what the function       *)
(* gives for the 4D field G[..., h].                                       *)
(***************************************************************************)
HistPlane(G, h) ==
    LET sh == <<G.shape[1], G.shape[2], G.shape[3], G.shape[4]>>
    IN  [shape |-> sh, data |-> [x \in Box(sh) |-> G.data[x \o <<h>>]]]

VoltCall(G) == IF fnPc = "downVolt" THEN downVolt(G) ELSE upVolt(G)

C13_VoltBothShapes ==
    fnPc \in {"downVolt", "upVolt"} =>
        /\ fnRes.ok
        /\ Len(fnArg.shape) = 5 =>
              /\ Len(fnRes.arr.shape) = 5
              /\ fnRes.arr.shape[5] = fnArg.shape[5]
              /\ \A h \in 0..(fnArg.shape[5] - 1) :
                    HistPlane(fnRes.arr, h) = VoltCall(HistPlane(fnArg, h)).arr

(***************************************************************************)
(* C14: a rank whose dataset shape differs from the per-rank shape of the  *)
(* first file is always fatal: whatever the differing shape is (size-1     *)
(* axes and fewer dimensions included), GetVar does not return an array    *)
(* and PullRestartMPI does not return.                                     *)
(***************************************************************************)
ShapeMismatch ==
    \E n \in DOMAIN rsFiles : rsFiles[n].Gas.shape # rsFiles[1].Gas.shape

C14_MismatchFatal ==
    /\ disk.odd # <<>> => ~GetVarReturned
    /\ ShapeMismatch => rsPc # "done"

(***************************************************************************)
(* C15 as stated: a progress update that raises after a tile does not      *)
(* abort the read, GetVar still returns the assembled array; and while a   *)
(* read succeeds the counter is one per tile read and ends at the number   *)
(* of tiles.                                                               *)
(***************************************************************************)
\* GetVar has just returned: a later GetGrid call starts its own counters
JustReturned == GetVarReturned /\ reads > 0

TilesShown ==
    /\ pc = "GetVar" => bar = tile - 1
    /\ pc = "GetVarParallel" => bar = Len(datasets)
    /\ JustReturned => bar = Len(PipeRanks(pipe))

C15_ProgressNeverAborts ==
    /\ barError => (pc = "idle" => GetVarReturned)
    /\ TilesShown

(***************************************************************************)
(* C15 amended: a progress update that raises ends GetVar there with the   *)
(* exception raised to the caller and no array returned, in both modes;    *)
(* while a read succeeds the counter is one per tile read, and it equals   *)
(* the number of tiles when GetVar returns.                                *)
(***************************************************************************)
C15_ProgressAbortsOrCounts ==
    /\ barError => (pc = "idle" /\ ret = Raised /\ bar < Len(PipeRanks(pipe)))
    /\ JustReturned => ~barError
    /\ TilesShown

C15_Witness ==
    /\ barError
    /\ ~ioError
    /\ ret = Raised
    /\ bar = 1
    /\ reads = 2
    /\ pipe.isMPI

(***************************************************************************)
(* GetSlice: the call has ended, with what it was asked.                   *)
(***************************************************************************)
SliceEnded == req.slice # NoValue /\ pc = "idle" /\ ret.kind # "none"

ReadsFine == ~ioError /\ ~barError

\* GetSlice when every read and progress update succeeds
GetSliceResult(P, d, r) == Finish(GetVarResult(P, d, r), r)

AsIdir(r) == [r EXCEPT !.slice = <<[ijkdir |-> "idir", n |-> r.slice[1].n]>>]

UnknownDirs == {"xdir", ""}

(***************************************************************************)
(* C16: GetSlice with a direction string that is none of idir, jdir, kdir  *)
(* in any case does not fail because of it: it ends as the same call with  *)
(* ijkdir='idir' ends, returning exactly the array that call returns, and  *)
(* on a 3D field with n within the I axis it returns an array.             *)
(***************************************************************************)
C16_UnknownDirectionIsIdir ==
    (SliceEnded /\ req.slice[1].ijkdir \in UnknownDirs) =>
        /\ ret = IF ReadsFine THEN GetSliceResult(pipe, disk, AsIdir(req)) ELSE Raised
        /\ (ReadsFine /\ ~pipe.is2D /\ req.slice[1].n \in 1..pipe.Ni) => ret.kind = "array"

C16_Witness ==
    /\ SliceEnded
    /\ req.slice[1].ijkdir = "xdir"
    /\ req.slice[1].n = 2
    /\ ret.kind = "array"
    /\ ret.val.shape = <<1, 2>>
    /\ pipe.isMPI
    /\ pipe.doParallel

(***************************************************************************)
(* C17: for every n with 1 <= n <= N_axis GetSlice returns the plane at    *)
(* 0-based position n-1 along the chosen axis of the array GetVar returns, *)
(* and for no n outside 1..N_axis does it return a plane of the field.     *)
(***************************************************************************)
AxisOf(str) == CASE str = "idir" -> 1 [] str = "Jdir" -> 2 [] str = "KDIR" -> 3

\* the plane of A at 0-based position k along axis
Plane(A, axis, k) ==
    LET sh == IF axis = 1 THEN <<A.shape[2], A.shape[3]>>
              ELSE IF axis = 2 THEN <<A.shape[1], A.shape[3]>>
              ELSE <<A.shape[1], A.shape[2]>>
    IN  [shape |-> sh,
         data |-> [y \in Box(sh) |->
                     A.data[IF axis = 1 THEN <<k, y[1], y[2]>>
                            ELSE IF axis = 2 THEN <<y[1], k, y[2]>>
                            ELSE <<y[1], y[2], k>>]]]

PlaneReturned ==
    LET A == GetVarResult(pipe, disk, req)
        axis == AxisOf(req.slice[1].ijkdir)
        n == req.slice[1].n
    IN  (ReadsFine /\ n \in 1..A.shape[axis]) => ret = Returned(Plane(A, axis, n - 1))

NoPlaneOutside ==
    LET A == GetVarResult(pipe, disk, req)
        axis == AxisOf(req.slice[1].ijkdir)
        n == req.slice[1].n
    IN  n \notin 1..A.shape[axis] => ret.kind # "array"

C17_PlanesOneToN ==
    (SliceEnded /\ ~pipe.is2D /\ req.slice[1].ijkdir \notin UnknownDirs) =>
        /\ PlaneReturned
        /\ NoPlaneOutside

(***************************************************************************)
(* C18: OpenPipe tries tag.h5, then tag.gam.h5, then the MPI rank-(0,0,0)  *)
(* pattern, in that order; it reads steps, dimensions and grid only if one *)
(* of them identifies exactly one database, and with no MPI match or more  *)
(* than one it bails out before reading anything.                          *)
(***************************************************************************)
Opening == ~(pipe.life = "new" /\ pc = "idle")

Bailed == pipe.life = "quit" /\ pc = "idle" /\ reads = 0 /\ ~ioError

InOrder ==
    pipe.f0 # "" =>
        pipe.f0 = IF disk.ls.old THEN "old" ELSE IF disk.ls.new THEN "new" ELSE "mpi"

C18_UniqueMatchOnly ==
    Opening =>
        /\ InOrder
        /\ (~disk.ls.old /\ ~disk.ls.new /\ Len(disk.ls.mpi) # 1) => Bailed
        /\ (disk.ls.old \/ disk.ls.new \/ Len(disk.ls.mpi) = 1) => ~Bailed

(***************************************************************************)
(* The RCM upscalers on a 1D array.                                        *)
(***************************************************************************)
OneD == Len(fnArg.Q.shape) = 1

\* the 1D array of the n values f[0], ..., f[n-1]
Vector(f, n) == [shape |-> <<n>>, data |-> [x \in Box(<<n>>) |-> f[x[1]]]]

\* each entry of Q twice
Doubled(Q) == Vector([i \in 0..(2 * Q.shape[1] - 1) |-> Q.data[<<i \div 2>>]], 2 * Q.shape[1])

\* upRCM1Dw on the single column Q: all but the last two entries twice, then
\* the first two entries of the result again, 0 where there is none
Wrapped(Q) ==
    LET n == 2 * (Q.shape[1] - 2)
        up == [i \in 0..(n + 1) |-> IF i < n THEN Q.data[<<i \div 2>>] ELSE 0]
    IN  Vector([i \in 0..(n + 1) |-> IF i < n THEN up[i] ELSE up[i - n]], n + 2)

FineQdV(x, k, j, i) ==
    RMul(gasIn.G.data[<<x[1], x[2], k, j, i>>], Volume(gasIn.grid).data[<<k, j, i>>])

\* over the 2x2x1 fine cells (2k..2k+1, 2j..2j+1, i) of the cell x
SumJK(x) ==
    RSum([n \in 0..3 |-> FineQdV(x, 2 * x[3] + (n \div 2), 2 * x[4] + (n % 2), x[5])], 4)

\* over the 2x2x2 fine cells (2k..2k+1, 2j..2j+1, 2i..2i+1) of the cell x
SumKJI(x) ==
    RSum([n \in 0..7 |-> FineQdV(x, 2 * x[3] + (n \div 4), 2 * x[4] + ((n \div 2) % 2),
                                 2 * x[5] + (n % 2))], 8)

CoarseVolume(x) == Volume(gasIn.gridD).data[<<x[3], x[4], x[5]>>]

(***************************************************************************)
(* C20 as stated: for G of shape (Ns,Nv,Nk,Nj,Ni) downGas returns shape    *)
(* (Ns,Nv,Nk//2,Nj//2,Ni), each coarse value being the sum of density      *)
(* times volume over its 2x2x1 fine cells divided by the coarse volume.    *)
(***************************************************************************)
C20_HalvesOnlyJK ==
    gasPc = "down" =>
        /\ gasDown.shape = <<gasIn.G.shape[1], gasIn.G.shape[2], gasIn.G.shape[3] \div 2,
                             gasIn.G.shape[4] \div 2, gasIn.G.shape[5]>>
        /\ \A x \in Box(gasDown.shape) : gasDown.data[x] = RDiv(SumJK(x), CoarseVolume(x))

(***************************************************************************)
(* C20 amended: downGas halves K, J and I: for G of shape (Ns,Nv,Nk,Nj,Ni) *)
(* it returns shape (Ns,Nv,Nk//2,Nj//2,Ni//2), each coarse value being the *)
(* sum of density times volume over its 2x2x2 fine cells divided by the    *)
(* coarse cell's own volume.                                               *)
(***************************************************************************)
C20_HalvesAllAxes ==
    gasPc = "down" =>
        /\ gasDown.shape = <<gasIn.G.shape[1], gasIn.G.shape[2], gasIn.G.shape[3] \div 2,
                             gasIn.G.shape[4] \div 2, gasIn.G.shape[5] \div 2>>
        /\ \A x \in Box(gasDown.shape) : gasDown.data[x] = RDiv(SumKJI(x), CoarseVolume(x))

C20_Witness ==
    /\ gasPc = "down"
    /\ gasIn.G.shape = <<1, 2, 2, 3, 2>>
    /\ gasDown.shape = <<1, 2, 1, 1, 1>>
    /\ gasDown.data[<<0, 1, 0, 0, 0>>] # RDiv(SumJK(<<0, 1, 0, 0, 0>>), CoarseVolume(<<0, 1, 0, 0, 0>>))

(***************************************************************************)
(* C21: for every coarse cell (k,j,i) of downFlux and each direction, the  *)
(* flux on each of the cell's two coarse faces normal to that direction is *)
(* the sum of the 4 fine faces of that direction lying on it (fine index   *)
(* 2i or 2i+2 along the normal, a 2x2 block along the tangential axes),    *)
(* and the value a cell writes on a face it shares with another cell is    *)
(* the value the result holds there.                                       *)
(***************************************************************************)
\* the unit step along axis d of (k,j,i): IDIR is the last axis, KDIR the first
Step(d) == [n \in 1..3 |-> IF n = 3 - d THEN 1 ELSE 0]

\* the two axes of (k,j,i) tangential to direction d
Tangents(d) == {n \in 1..3 : n # 3 - d}

\* the 4 fine faces of direction d lying on the coarse face x of direction d
FineFaces(d, x) ==
    {y \in Box(<<2 * x[1] + 2, 2 * x[2] + 2, 2 * x[3] + 2>>) :
        /\ y[3 - d] = 2 * x[3 - d]
        /\ \A n \in Tangents(d) : y[n] \in {2 * x[n], 2 * x[n] + 1}}

RECURSIVE SumOver(_, _, _)
SumOver(M, d, S) ==
    IF S = {} THEN 0
    ELSE LET y == CHOOSE y \in S : TRUE
         IN  M.data[<<d>> \o y] + SumOver(M, d, S \ {y})

\* the two coarse faces of direction d of the cell c
FacesOf(d, c) == {c, [n \in 1..3 |-> c[n] + Step(d)[n]]}

C21_DownFluxSums ==
    fluxPc = "down" =>
        \A c \in Box(HalfCells(fluxIn)), d \in {IDIR, JDIR, KDIR} :
            \A x \in FacesOf(d, c) :
                /\ Cardinality(FineFaces(d, x)) = 4
                /\ fluxOut.data[<<d>> \o x] = SumOver(fluxIn, d, FineFaces(d, x))
                /\ DownFluxCell(fluxIn, Zeros(fluxOut.shape), c).data[<<d>> \o x]
                      = fluxOut.data[<<d>> \o x]

C21_Witness ==
    /\ fluxPc = "down"
    /\ fluxIn.shape = <<3, 3, 4, 5>>
    /\ fluxOut.data[<<IDIR, 0, 0, 1>>]
          = fluxIn.data[<<IDIR, 0, 0, 2>>] + fluxIn.data[<<IDIR, 0, 1, 2>>]
            + fluxIn.data[<<IDIR, 1, 0, 2>>] + fluxIn.data[<<IDIR, 1, 1, 2>>]
    /\ fluxOut.data[<<IDIR, 0, 0, 1>>] # fluxIn.data[<<IDIR, 0, 0, 2>>]
    /\ fluxOut.data[<<IDIR, 0, 0, 1>>] # fluxOut.data[<<IDIR, 0, 0, 0>>]
    /\ fluxOut.shape = <<3, 2, 2, 3>>
    /\ DownFluxCell(fluxIn, Zeros(fluxOut.shape), <<0, 0, 0>>).data[<<IDIR, 0, 0, 1>>]
          = DownFluxCell(fluxIn, Zeros(fluxOut.shape), <<0, 0, 1>>).data[<<IDIR, 0, 0, 1>>]

(***************************************************************************)
(* C22: in the array upFlux returns, every fine face lying on a coarse     *)
(* face holds 1/4 of that coarse face's flux, so that the 4 children of a  *)
(* coarse face sum to it, and every fine interior face (odd index along    *)
(* its normal) holds the mean of the two fine faces of the same direction  *)
(* flanking it along the normal.                                           *)
(***************************************************************************)
\* the faces of direction d that bound a cell of a grid of N = (Nk,Nj,Ni) cells
RealFaces(d, N) ==
    {y \in Box(PlusOne(N)) : \A n \in Tangents(d) : y[n] < N[n]}

Twice(N) == [n \in 1..3 |-> 2 * N[n]]

Halved(y) == [n \in 1..3 |-> y[n] \div 2]

Shifted(y, d, s) == [n \in 1..3 |-> y[n] + s * Step(d)[n]]

C22_UpFluxValues ==
    fluxPc = "up" =>
        /\ fluxOut.shape = <<3>> \o PlusOne(Twice(FluxCells(fluxIn)))
        /\ \A d \in {IDIR, JDIR, KDIR} :
              /\ \A y \in RealFaces(d, Twice(FluxCells(fluxIn))) :
                    IF y[3 - d] % 2 = 0
                    THEN 4 * fluxOut.data[<<d>> \o y] = fluxIn.data[<<d>> \o Halved(y)]
                    ELSE 2 * fluxOut.data[<<d>> \o y]
                            = fluxOut.data[<<d>> \o Shifted(y, d, 0 - 1)]
                              + fluxOut.data[<<d>> \o Shifted(y, d, 1)]
              /\ \A x \in RealFaces(d, FluxCells(fluxIn)) :
                    SumOver(fluxOut, d, FineFaces(d, x)) = fluxIn.data[<<d>> \o x]

C22_Witness ==
    /\ fluxPc = "up"
    /\ fluxIn.shape = <<3, 3, 3, 3>>
    /\ fluxIn.data[<<IDIR, 1, 1, 1>>] = 8 * 14
    /\ fluxIn.data[<<IDIR, 1, 1, 2>>] = 8 * 15
    /\ fluxOut.data[<<IDIR, 3, 2, 2>>] = 2 * 14
    /\ fluxOut.data[<<IDIR, 3, 2, 4>>] = 2 * 15
    /\ fluxOut.data[<<IDIR, 3, 2, 3>>] = 29

(***************************************************************************)
(* C23: the array upFlux returns equals the array of the fixed two-phase   *)
(* order: first every coarse-aligned exterior face of all cells in all     *)
(* three directions, then the I, then the J, then the K interior faces;    *)
(* and every interior face is computed from exterior faces that hold       *)
(* their final value when the cell's pass reads them.                      *)
(***************************************************************************)
\* Mu, then Mu after the exterior faces of each of the first n cells are
\* assigned on it
RECURSIVE ExteriorPasses(_, _, _)
ExteriorPasses(M, Mu, n) ==
    IF n = 0 THEN <<Mu>>
    ELSE LET T == ExteriorPasses(M, Mu, n - 1)
         IN  Append(T, UpFluxExterior(M, T[n], CellSeq(FluxCells(M))[n]))

\* the exterior faces of the first n cells, assigned on Mu
ExteriorPhase(M, Mu, n) == ExteriorPasses(M, Mu, n)[n + 1]

\* the interior faces of direction d of the cell c: the mean of the two faces
\* flanking them along d
InteriorOf(Mu, c, d) ==
    LET B == Block(d, Shifted(Twice(c), d, 1), [n \in 1..3 |-> 2 - Step(d)[n]])
    IN  SetBlock(Mu, B,
           [x \in Entries(B) |-> Half(Mu.data[<<d>> \o Shifted(Tail(x), d, 0 - 1)]
                                     + Mu.data[<<d>> \o Shifted(Tail(x), d, 1)])])

\* Mu, then Mu after the interior faces of direction d of each of the first n
\* cells are assigned on it
RECURSIVE InteriorPasses(_, _, _, _)
InteriorPasses(M, Mu, d, n) ==
    IF n = 0 THEN <<Mu>>
    ELSE LET T == InteriorPasses(M, Mu, d, n - 1)
         IN  Append(T, InteriorOf(T[n], CellSeq(FluxCells(M))[n], d))

\* the interior faces of direction d of the first n cells, assigned on Mu
InteriorPhase(M, Mu, d, n) == InteriorPasses(M, Mu, d, n)[n + 1]

NumCells(M) == Len(CellSeq(FluxCells(M)))

TwoPhase(M) ==
    LET E == ExteriorPhase(M, UpFluxLoop(M, 0), NumCells(M))
        I == InteriorPhase(M, E, IDIR, NumCells(M))
        J == InteriorPhase(M, I, JDIR, NumCells(M))
    IN  InteriorPhase(M, J, KDIR, NumCells(M))

\* the exterior faces of cell number n hold their final value once the cell's
\* exterior assignments are done
ExteriorFinal(M, n) ==
    LET c == CellSeq(FluxCells(M))[n]
        Mu == UpFluxExterior(M, UpFluxLoop(M, n - 1), c)
    IN  \A d \in {IDIR, JDIR, KDIR} :
            \A y \in FineFaces(d, c) \cup FineFaces(d, Shifted(c, d, 1)) :
                Mu.data[<<d>> \o y] = upFlux(M).data[<<d>> \o y]

C23_UpFluxOrder ==
    fluxPc = "up" =>
        /\ fluxOut = TwoPhase(fluxIn)
        /\ \A n \in 1..NumCells(fluxIn) : ExteriorFinal(fluxIn, n)

C23_Witness ==
    /\ fluxPc = "up"
    /\ fluxIn.shape = <<3, 3, 3, 3>>
    /\ fluxIn.data[<<IDIR, 0, 0, 1>>] # 0
    /\ fluxIn.data[<<IDIR, 0, 0, 1>>] # fluxIn.data[<<IDIR, 0, 0, 2>>]
    /\ UpFluxLoop(fluxIn, 1).data[<<IDIR, 0, 0, 2>>] = fluxOut.data[<<IDIR, 0, 0, 2>>]
    /\ UpFluxLoop(fluxIn, 1).data[<<IDIR, 0, 0, 3>>] = 0
    /\ fluxOut.data[<<IDIR, 0, 0, 3>>] # 0
    /\ fluxOut = TwoPhase(fluxIn)

(***************************************************************************)
(* C27: in the output of upFlux each of the 8 fine cells inside a coarse   *)
(* cell has the divergence MaxDiv computes equal to 1/8 of the coarse      *)
(* cell's divergence in the input; so a coarse flux without divergence     *)
(* gives a fine flux without divergence.                                   *)
(***************************************************************************)
C27_UpFluxDivergence ==
    fluxPc = "updiv" =>
        /\ fluxDiv[1].shape = FluxCells(fluxIn)
        /\ fluxDiv[2].shape = Twice(FluxCells(fluxIn))
        /\ \A y \in Box(fluxDiv[2].shape) :
              8 * fluxDiv[2].data[y] = fluxDiv[1].data[Halved(y)]
        /\ (\A x \in Box(fluxDiv[1].shape) : fluxDiv[1].data[x] = 0) =>
              \A y \in Box(fluxDiv[2].shape) : fluxDiv[2].data[y] = 0

C27_Witness ==
    /\ fluxPc = "updiv"
    /\ fluxIn.shape = <<3, 3, 3, 3>>
    /\ fluxDiv[1].data[<<1, 0, 1>>] # 0
    /\ \A y \in Box(<<2, 2, 2>>) :
          8 * fluxDiv[2].data[<<2 + y[1], y[2], 2 + y[3]>>] = fluxDiv[1].data[<<1, 0, 1>>]

(***************************************************************************)
(* C28: for a coarse flux array M of shape (3,Nk+1,Nj+1,Ni+1),             *)
(* downFlux(upFlux(M)) has the shape of M, equals M on every face that     *)
(* bounds a cell, and is 0 on the remaining padding entries whatever M     *)
(* holds there.                                                            *)
(***************************************************************************)
C28_UpThenDownFlux ==
    fluxPc = "updown" =>
        /\ fluxOut.shape = fluxIn.shape
        /\ \A d \in {IDIR, JDIR, KDIR} :
              \A x \in Box(PlusOne(FluxCells(fluxIn))) :
                  fluxOut.data[<<d>> \o x]
                     = IF x \in RealFaces(d, FluxCells(fluxIn))
                       THEN fluxIn.data[<<d>> \o x]
                       ELSE 0

C28_Witness ==
    /\ fluxPc = "updown"
    /\ fluxIn.shape = <<3, 3, 3, 3>>
    /\ fluxOut.data[<<IDIR, 1, 1, 2>>] = fluxIn.data[<<IDIR, 1, 1, 2>>]
    /\ fluxOut.data[<<IDIR, 1, 1, 2>>] # 0
    /\ fluxIn.data[<<IDIR, 2, 1, 2>>] # 0
    /\ fluxOut.data[<<IDIR, 2, 1, 2>>] = 0
    /\ fluxIn.data[<<IDIR, 1, 1, 1>>] # fluxIn.data[<<IDIR, 1, 1, 2>>]

(***************************************************************************)
(* C24: in GetVarParallel the returned array does not depend on the order  *)
(* in which the futures complete: the destination index ranges of two      *)
(* different ranks never intersect, V is not written while futures are     *)
(* pending, the merge of the results gathered so far gives the same array  *)
(* in the order gathered as in submission order, and the array returned    *)
(* is the one assembled in submission order.                               *)
(***************************************************************************)
\* the results gathered in done, put in submission order
Submitted(P, done) ==
    LET locs == SelectSeq(PipeRanks(P), LAMBDA r : \E n \in 1..Len(done) : done[n].loc = r)
    IN  [n \in 1..Len(locs) |-> CHOOSE e \in {done[m] : m \in 1..Len(done)} : e.loc = locs[n]]

\* V[iS:iE,jS:jE,kS:kE] of the ranks l1 and l2 have no index in common: on some
\* axis one range ends where or before the other starts
Apart(P, l1, l2) ==
    \E a \in 1..Len(l1) :
        \/ TileHi(P, l1)[a] <= TileLo(P, l2)[a]
        \/ TileHi(P, l2)[a] <= TileLo(P, l1)[a]

ParallelCall == pipe.isMPI /\ pipe.doParallel

C24_MergeOrderIndependent ==
    /\ (pc = "GetVarParallel") =>
          /\ V = VarAlloc(pipe)
          /\ MergeVar(pipe, V, datasets, Len(datasets))
                = MergeVar(pipe, V, Submitted(pipe, datasets), Len(datasets))
          /\ \A n, m \in 1..Len(datasets) :
                n # m => Apart(pipe, datasets[n].loc, datasets[m].loc)
    /\ (GetVarReturned /\ ParallelCall /\ reads > 0) =>
          ret.val = GetVarParallelResult(pipe, disk, req)

C24_Witness ==
    /\ pc = "GetVarParallel"
    /\ Len(datasets) = 3
    /\ datasets[1].loc = PipeRanks(pipe)[2]
    /\ datasets[2].loc = PipeRanks(pipe)[3]
    /\ datasets[3].loc = PipeRanks(pipe)[1]
    /\ Submitted(pipe, datasets) # datasets
    /\ MergeVar(pipe, V, datasets, 3).ok
    /\ MergeVar(pipe, V, datasets, 3).arr # V
    /\ MergeVar(pipe, V, datasets, 3) = MergeVar(pipe, V, Submitted(pipe, datasets), 3)

(***************************************************************************)
(* C25: for a 2D Q with Ni >= 2 rows upRCM1Dw returns 2*(Ni-2)+2 rows with *)
(* Q's number of columns; for 0 <= i < Ni-2 the output rows 2i and 2i+1    *)
(* both equal row i of Q, and the last two output rows equal the output    *)
(* rows 0 and 1.                                                           *)
(***************************************************************************)
RowOf(A, i) == [j \in 0..(A.shape[2] - 1) |-> A.data[<<i, j>>]]

C25_WrapUpscale ==
    (fnPc = "upRCM1Dw" /\ Len(fnArg.Q.shape) = 2 /\ fnArg.Q.shape[1] >= 2) =>
        LET Ni == fnArg.Q.shape[1]
            Nri == 2 * (Ni - 2) + 2
        IN  /\ fnRes.ok
            /\ fnRes.arr.shape = <<Nri, fnArg.Q.shape[2]>>
            /\ \A i \in 0..(Ni - 3) :
                  /\ RowOf(fnRes.arr, 2 * i) = RowOf(fnArg.Q, i)
                  /\ RowOf(fnRes.arr, 2 * i + 1) = RowOf(fnArg.Q, i)
            /\ RowOf(fnRes.arr, Nri - 2) = RowOf(fnRes.arr, 0)
            /\ RowOf(fnRes.arr, Nri - 1) = RowOf(fnRes.arr, 1)

C25_Witness ==
    /\ fnPc = "upRCM1Dw"
    /\ fnArg.Q.shape = <<4, 2>>
    /\ fnRes.ok
    /\ fnRes.arr.shape = <<6, 2>>
    /\ RowOf(fnRes.arr, 3) = RowOf(fnArg.Q, 1)
    /\ RowOf(fnRes.arr, 3) # RowOf(fnRes.arr, 1)
    /\ RowOf(fnRes.arr, 5) = RowOf(fnArg.Q, 0)
    /\ RowOf(fnRes.arr, 5) # RowOf(fnArg.Q, 3)

(***************************************************************************)
(* C26: in the (r,phi) node arrays upGrid builds from (Ni+1) x (Nj+1)      *)
(* input nodes, node (2i,2j) is input node (i,j), nodes (2i+1,2j) and      *)
(* (2i,2j+1) are the mean of the 2 adjacent input nodes, node (2i+1,2j+1)  *)
(* is the mean of the 4 surrounding input nodes, and every node of the     *)
(* (2Ni+1) x (2Nj+1) result is one of these, none keeps np.zeros' value.   *)
(***************************************************************************)
\* H is in by midpoint insertion: 4*H[x] is the sum over the four input nodes
\* (x[1] div 2 or that plus x[1] mod 2, the same for x[2]), counted with repeats
Midpointed(H, in) ==
    /\ H.shape = <<2 * (in.shape[1] - 1) + 1, 2 * (in.shape[2] - 1) + 1>>
    /\ \A x \in Box(H.shape) :
          4 * H.data[x]
             = in.data[<<x[1] \div 2, x[2] \div 2>>]
               + in.data[<<(x[1] \div 2) + (x[1] % 2), x[2] \div 2>>]
               + in.data[<<x[1] \div 2, (x[2] \div 2) + (x[2] % 2)>>]
               + in.data[<<(x[1] \div 2) + (x[1] % 2), (x[2] \div 2) + (x[2] % 2)>>]

C26_MidpointInsertion ==
    fnPc = "upGrid" =>
        /\ Midpointed(fnRes.rrH, fnArg.rr)
        /\ Midpointed(fnRes.ppH, fnArg.pp)

C26_Witness ==
    /\ fnPc = "upGrid"
    /\ fnArg.rr.shape = <<3, 3>>
    /\ fnRes.rrH.shape = <<5, 5>>
    /\ fnRes.rrH.data[<<2, 4>>] = fnArg.rr.data[<<1, 2>>]
    /\ 2 * fnRes.rrH.data[<<3, 2>>] = fnArg.rr.data[<<1, 1>>] + fnArg.rr.data[<<2, 1>>]
    /\ 2 * fnRes.rrH.data[<<2, 3>>] = fnArg.rr.data[<<1, 1>>] + fnArg.rr.data[<<1, 2>>]
    /\ 4 * fnRes.rrH.data[<<3, 3>>] = fnArg.rr.data[<<1, 1>>] + fnArg.rr.data[<<1, 2>>]
                                        + fnArg.rr.data[<<2, 1>>] + fnArg.rr.data[<<2, 2>>]
    /\ \A x \in Box(<<5, 5>>) : fnRes.rrH.data[x] # 0
    /\ fnRes.rrH.data[<<3, 3>>] # fnRes.rrH.data[<<3, 2>>]
    /\ fnRes.ppH.data[<<1, 1>>] # 0

(***************************************************************************)
(* C29: PullRestartMPI visits the ranks in ascending (i,j,k) order with k  *)
(* fastest; where the magFlux or omagFlux datasets of adjacent ranks       *)
(* disagree on a layer they share, the merged array holds the value of the *)
(* rank visited last among those whose block has the entry, which is the   *)
(* one with the highest index along each axis, never a sum or a mix; and   *)
(* every entry of Gas, oGas and Gas0 lies in the block of one rank only.   *)
(***************************************************************************)
\* the per-rank sizes (Nkp, Njp, Nip) and the first cell (kS, jS, iS) of the
\* n-th rank visited
FileDims == <<rsFiles[1].Gas.shape[3], rsFiles[1].Gas.shape[4], rsFiles[1].Gas.shape[5]>>

Visited(n) == RankSeq(rsIn.R)[n]

FirstCell(n) ==
    <<Visited(n)[3] * FileDims[1], Visited(n)[2] * FileDims[2], Visited(n)[1] * FileDims[3]>>

\* the ranks whose flux block M[:, kS:kE+1, jS:jE+1, iS:iE+1] has the entry x
FluxWriters(x) ==
    {n \in 1..Len(rsFiles) :
        \A a \in 1..3 : FirstCell(n)[a] <= x[a + 1] /\ x[a + 1] <= FirstCell(n)[a] + FileDims[a]}

\* the ranks whose gas block G[:, :, kS:kE, jS:jE, iS:iE] has the entry x
GasWriters(x) ==
    {n \in 1..Len(rsFiles) :
        \A a \in 1..3 : FirstCell(n)[a] <= x[a + 2] /\ x[a + 2] < FirstCell(n)[a] + FileDims[a]}

LastOf(S) == CHOOSE n \in S : \A m \in S : m <= n

\* the entry of the n-th file's dataset D that lands on the entry x of the
\* merged array; lead is the number of axes before k
FromFile(D, n, x, lead) ==
    D.data[[a \in 1..Len(x) |-> IF a <= lead THEN x[a] ELSE x[a] - FirstCell(n)[a - lead]]]

C29_LastWriterWins ==
    /\ rsPc \in {"pull", "done"} =>
          \A n \in 1..(Len(rsFiles) - 1) :
              \/ Visited(n)[1] < Visited(n + 1)[1]
              \/ Visited(n)[1] = Visited(n + 1)[1] /\ Visited(n)[2] < Visited(n + 1)[2]
              \/ /\ Visited(n)[1] = Visited(n + 1)[1]
                 /\ Visited(n)[2] = Visited(n + 1)[2]
                 /\ Visited(n)[3] + 1 = Visited(n + 1)[3]
    /\ rsPc = "done" =>
          /\ \A x \in Box(rsOut.M.shape) :
                LET last == LastOf(FluxWriters(x))
                IN  /\ rsOut.M.data[x] = FromFile(rsFiles[last].magFlux, last, x, 1)
                    /\ rsOut.oM.data[x] = FromFile(rsFiles[last].omagFlux, last, x, 1)
                    /\ \A m \in FluxWriters(x), a \in 1..3 : Visited(m)[a] <= Visited(last)[a]
          /\ \A x \in Box(rsOut.G.shape) :
                /\ Cardinality(GasWriters(x)) = 1
                /\ rsOut.G.data[x] = FromFile(rsFiles[LastOf(GasWriters(x))].Gas,
                                              LastOf(GasWriters(x)), x, 2)
                /\ rsOut.oG.data[x] = FromFile(rsFiles[LastOf(GasWriters(x))].oGas,
                                               LastOf(GasWriters(x)), x, 2)
                /\ rsOut.G0 # NoValue =>
                      rsOut.G0[1].data[x] = FromFile(rsFiles[LastOf(GasWriters(x))].Gas0[1],
                                                     LastOf(GasWriters(x)), x, 2)

C29_Witness ==
    /\ rsPc = "done"
    /\ rsIn.R = <<2, 1, 2>>
    /\ FileDims = <<1, 1, 2>>
    /\ FluxWriters(<<0, 1, 0, 2>>) = {1, 2, 3, 4}
    /\ rsFiles[1].magFlux.data[<<0, 1, 0, 2>>] # rsFiles[4].magFlux.data[<<0, 0, 0, 0>>]
    /\ rsFiles[2].magFlux.data[<<0, 0, 0, 2>>] # rsFiles[4].magFlux.data[<<0, 0, 0, 0>>]
    /\ rsOut.M.data[<<0, 1, 0, 2>>] = rsFiles[4].magFlux.data[<<0, 0, 0, 0>>]
    /\ rsOut.G0 # NoValue

(***************************************************************************)
(* C30: gridLoaded is True only if every rank tile of X, Y (and Z on 3D    *)
(* files) has been written: the flag is False at first, a step that sets   *)
(* it leaves X, Y, Z assembled from every rank's tile, and no step changes *)
(* them or the flag afterwards.  A step of GetGrid in which a tile read    *)
(* fails leaves gridLoaded False and the constructor raised, so the arrays *)
(* the failed call left partly assembled are on no pipe a client holds: a  *)
(* pipe that is open has its grid loaded.                                  *)
(***************************************************************************)
GridComplete ==
    /\ Assembled(pipe.X, PlusOne(GlobalCells), "X")
    /\ Assembled(pipe.Y, PlusOne(GlobalCells), "Y")
    /\ ~disk.is2D => Assembled(pipe.Z, PlusOne(GlobalCells), "Z")

\* a read of GetGrid's loops has failed: the reads of GetVar set ret, the read
\* of OpenPipe before GetGrid is the first
GridReadFailed == ioError /\ pc = "idle" /\ ret = NoCall /\ reads > 1

\* some rank's tile of A is written and some node of A is not
PartlyAssembled(A, vID) ==
    /\ A.shape = PlusOne(GlobalCells)
    /\ \E loc \in DiskRanks :
          \A x \in Box(FileGrid(disk, loc, vID).shape) :
              A.data[GlobalIndex(disk, loc, x)] = FileGrid(disk, loc, vID).data[x]
    /\ \E x \in Box(A.shape) : A.data[x] = 0

====
